---- MODULE Spec2Model ----
(***************************************************************************)
(* Localyse translation proxy (Cloudflare Worker).                         *)
(*                                                                         *)
(* The worker's fetch handler is modelled as a set of request handlers     *)
(* that run concurrently against one key-value quota store.  A handler is  *)
(* cut into steps at the points where the code awaits an external party:   *)
(* the KV read, the KV write, the translation provider and the refinement  *)
(* service.  Everything between two awaits runs in one step.               *)
(*                                                                         *)
(* Strings whose characters the code inspects (texts, locales, layer       *)
(* names, stored counters) are sequences of one-character strings.  Ids    *)
(* and user ids are opaque and are plain strings; "" is the absent or      *)
(* empty (falsy) value.                                                    *)
(***************************************************************************)
EXTENDS Integers, Sequences, FiniteSets, TLC

VARIABLES now, kv, env, pc, req, loc, resp, log, hist,
          selectionGeneration, selection, exports, ui, page, applying,
          clientStorage, presetOps, expected

workerVars == <<now, kv, env, pc, req, loc, resp, log, hist>>
pluginVars == <<selectionGeneration, selection, exports, ui, page, applying,
                clientStorage, presetOps, expected>>
vars == <<workerVars, pluginVars>>

(***************************************************************************)
(* Program constants                                                       *)
(***************************************************************************)
DAILY_LIMIT == 25
DAY_IN_SECONDS == 86400
ErrSliceLen == 200
StripSlack == 20
\* The limits the worker's documentation states for a payload; the handler's
\* code holds no such limit.
MAX_TEXT_LAYERS == 500
MAX_CHARS_PER_LAYER == 5000

(***************************************************************************)
(* Bounds of the model                                                     *)
(***************************************************************************)
NumHandlers == 2
MaxRequests == 3
MaxLayers == 2
MaxReply == 2
TickStep == 43200
MaxTicks == 3
NearLimitGap == 2

Handlers == 1..NumHandlers

(***************************************************************************)
(* Character strings                                                       *)
(***************************************************************************)
LowerAlpha == <<"a","b","c","d","e","f","g","h","i","j","k","l","m",
                "n","o","p","q","r","s","t","u","v","w","x","y","z">>
UpperAlpha == <<"A","B","C","D","E","F","G","H","I","J","K","L","M",
                "N","O","P","Q","R","S","T","U","V","W","X","Y","Z">>
Digits == <<"0","1","2","3","4","5","6","7","8","9">>

IndexIn(c, alpha) ==
    IF \E i \in 1..Len(alpha) : alpha[i] = c
    THEN CHOOSE i \in 1..Len(alpha) : alpha[i] = c
    ELSE 0

UpperChar(c) == IF IndexIn(c, LowerAlpha) > 0 THEN UpperAlpha[IndexIn(c, LowerAlpha)] ELSE c
LowerChar(c) == IF IndexIn(c, UpperAlpha) > 0 THEN LowerAlpha[IndexIn(c, UpperAlpha)] ELSE c

ToUpperCase(s) == [i \in 1..Len(s) |-> UpperChar(s[i])]
ToLowerCase(s) == [i \in 1..Len(s) |-> LowerChar(s[i])]

IsSpace(c) == c = " "

RECURSIVE TrimStart(_)
TrimStart(s) == IF s # <<>> /\ IsSpace(Head(s)) THEN TrimStart(Tail(s)) ELSE s

RECURSIVE TrimEnd(_)
TrimEnd(s) ==
    IF s # <<>> /\ IsSpace(s[Len(s)]) THEN TrimEnd(SubSeq(s, 1, Len(s) - 1)) ELSE s

Trim(s) == TrimEnd(TrimStart(s))

\* Mutant: the whole string, not cut
SliceTo_Whole(s, n) == s

\* s.slice(0, n)
SliceTo(s, n) == SubSeq(s, 1, IF Len(s) < n THEN Len(s) ELSE n)

\* s.substring(k) with a 0-based offset k
SubstringFrom(s, k) == SubSeq(s, k + 1, Len(s))

\* s.indexOf(pat): the 0-based offset of the first occurrence, or -1
IndexOf(s, pat) ==
    LET hits == {k \in 0..(Len(s) - Len(pat)) : SubSeq(s, k + 1, k + Len(pat)) = pat}
    IN  IF hits = {} THEN -1 ELSE CHOOSE k \in hits : \A j \in hits : k <= j

\* s.split("-")[0]
BeforeHyphen(s) ==
    LET k == IndexOf(s, <<"-">>) IN IF k = -1 THEN s ELSE SubSeq(s, 1, k)

\* s.startsWith(p)
StartsWith(s, p) == Len(s) >= Len(p) /\ SubSeq(s, 1, Len(p)) = p

\* String(n) for a natural number n
RECURSIVE DecStr(_)
DecStr(n) == IF n < 10 THEN <<Digits[n + 1]>> ELSE DecStr(n \div 10) \o <<Digits[(n % 10) + 1]>>

\* parseInt(s): the value of the leading decimal digits; -1 stands for NaN
RECURSIVE DigitsValue(_, _)
DigitsValue(s, acc) ==
    IF s # <<>> /\ IndexIn(Head(s), Digits) > 0
    THEN DigitsValue(Tail(s), acc * 10 + (IndexIn(Head(s), Digits) - 1))
    ELSE acc

ParseInt(s) ==
    LET t == TrimStart(s)
    IN  IF t # <<>> /\ IndexIn(Head(t), Digits) > 0 THEN DigitsValue(t, 0) ELSE -1

(***************************************************************************)
(* Abbreviation dictionary.  The model carries the rows and columns of     *)
(* ABBREV_DICT written in ASCII; texts and locales of the model are drawn  *)
(* from these rows and columns and from values the full table lacks too.   *)
(***************************************************************************)
FR == <<"f","r">>
DE == <<"d","e">>
ES == <<"e","s">>
VI == <<"v","i">>

ABBREV_DICT ==
    (<<"J","A","N">> :> (FR :> <<"J","A","N","V">> @@ DE :> <<"J","A","N">> @@ ES :> <<"E","N","E">>
                         @@ VI :> <<"T","h","1">>))
 @@ (<<"M","A","Y">> :> (FR :> <<"M","A","I">> @@ DE :> <<"M","A","I">> @@ ES :> <<"M","A","Y">>
                         @@ VI :> <<"T","h","5">>))
 @@ (<<"M","O","N">> :> (FR :> <<"L","U","N">> @@ DE :> <<"M","O">> @@ ES :> <<"L","U","N">>
                         @@ VI :> <<"T","2">>))
 @@ (<<"S","U","N">> :> (FR :> <<"D","I","M">> @@ DE :> <<"S","O">> @@ ES :> <<"D","O","M">>
                         @@ VI :> <<"C","N">>))

\* The rows of ABBREV_DICT are object literals: entry[key] also finds the
\* properties every object inherits from Object.prototype, whose values are
\* functions (truthy, with no string methods).
InheritedKeys == {<<"c","o","n","s","t","r","u","c","t","o","r">>}

\* A value that is not a string: Response.json leaves such a property out
FunctionValue == <<"function">>

NotFound == [found |-> FALSE, value |-> <<>>, throws |-> FALSE]
Found(v) == [found |-> TRUE, value |-> v, throws |-> FALSE]
\* match.toUpperCase(), match.toLowerCase() or match.charAt(0) on a match that is
\* not a string: a TypeError
LookupThrows == [found |-> FALSE, value |-> <<>>, throws |-> TRUE]

\* Mutant: the title-case branch is missing
RestoreCasing_NoTitle(text, match) ==
    IF text = ToUpperCase(text) THEN ToUpperCase(match)
    ELSE IF text = ToLowerCase(text) THEN ToLowerCase(match)
    ELSE match

\* The casing decision of lookupAbbrev, taken on the text as passed in.
RestoreCasing(text, match) ==
    IF text = ToUpperCase(text) THEN ToUpperCase(match)
    ELSE IF text = ToLowerCase(text) THEN ToLowerCase(match)
    ELSE IF text[1] = UpperChar(text[1])
         THEN <<UpperChar(match[1])>> \o ToLowerCase(Tail(match))
         ELSE match

\* The casing step of lookupAbbrev on an inherited (function) match: each of its
\* three tests, when it holds, calls a string method on the match; past them the
\* match itself is returned.
InheritedMatch(text) ==
    IF text = ToUpperCase(text) \/ text = ToLowerCase(text) \/ text[1] = UpperChar(text[1])
    THEN LookupThrows
    ELSE Found(FunctionValue)

\* entry[targetLocale] || entry[baseLang]: the key whose value is taken, <<>> for none
MatchKey(entryKeys, targetLocale) ==
    LET baseLang == ToLowerCase(BeforeHyphen(targetLocale))
    IN  IF targetLocale \in entryKeys THEN targetLocale
        ELSE IF baseLang \in entryKeys THEN baseLang
        ELSE <<>>

lookupAbbrev(text, targetLocale) ==
    LET upper == ToUpperCase(Trim(text))
    IN  IF upper \notin DOMAIN ABBREV_DICT THEN NotFound
        ELSE LET entry == ABBREV_DICT[upper]
                 key == MatchKey(DOMAIN entry \cup InheritedKeys, targetLocale)
             IN  IF key = <<>> THEN NotFound
                 ELSE IF key \in DOMAIN entry THEN Found(RestoreCasing(text, entry[key]))
                 ELSE InheritedMatch(text)

(***************************************************************************)
(* Context formatting                                                      *)
(***************************************************************************)
contextText(layer) == <<"[">> \o layer.layerName \o <<"]", " ">> \o layer.text

\* Mutant: the offset test with <= in place of <
stripContext_Inclusive(translatedText, layerName) ==
    LET bracketEnd == IndexOf(translatedText, <<"]", " ">>)
    IN  IF bracketEnd # -1 /\ bracketEnd <= Len(layerName) + StripSlack
        THEN Trim(SubstringFrom(translatedText, bracketEnd + 2))
        ELSE Trim(translatedText)

stripContext(translatedText, layerName) ==
    LET bracketEnd == IndexOf(translatedText, <<"]", " ">>)
    IN  IF bracketEnd # -1 /\ bracketEnd < Len(layerName) + StripSlack
        THEN Trim(SubstringFrom(translatedText, bracketEnd + 2))
        ELSE Trim(translatedText)

(***************************************************************************)
(* Quota store: Cloudflare KV namespace RATE_LIMIT.  A key written with    *)
(* expirationTtl is readable until its expiry and absent afterwards.       *)
(***************************************************************************)
Identities == {"u1", "anonymous"}

AbsentKey == [present |-> FALSE, value |-> <<>>, expiresAt |-> 0]

\* env.RATE_LIMIT.get(key): the stored string, or null
KvLive(store, key, t) == store[key].present /\ t < store[key].expiresAt

KvGet(store, key, t) ==
    IF KvLive(store, key, t)
    THEN [isNull |-> FALSE, value |-> store[key].value]
    ELSE [isNull |-> TRUE, value |-> <<>>]

\* env.RATE_LIMIT.put(key, value, { expirationTtl: ttl })
KvPut(store, key, value, ttl, t) ==
    [store EXCEPT ![key] = [present |-> TRUE, value |-> value, expiresAt |-> t + ttl]]

\* parseInt(await env.RATE_LIMIT.get(key)) || 0
ReadCurrent(store, key, t) ==
    LET got == KvGet(store, key, t)
        n == IF got.isNull THEN -1 ELSE ParseInt(got.value)
    IN  IF n = -1 THEN 0 ELSE n

\* Mutant: the header is not looked at, every caller falls in the one bucket
UserIdOf_Shared(header) == "anonymous"

\* request.headers.get("X-User-Id") || "anonymous"
UserIdOf(header) == IF header = "" THEN "anonymous" ELSE header

(***************************************************************************)
(* checkRateLimit, split at its two awaits.                                *)
(***************************************************************************)
Denied == [allowed |-> FALSE, remaining |-> 0]
\* Mutant: the remaining quota computed without counting the admission itself
Allowed_OffByOne(current) == [allowed |-> TRUE, remaining |-> DAILY_LIMIT - current]
Allowed(current) == [allowed |-> TRUE, remaining |-> DAILY_LIMIT - current - 1]

\* Mutant: no limit test at all
OverLimit_Never(current) == FALSE

\* Mutant: the limit test with > in place of >=
OverLimit_Strict(current) == current > DAILY_LIMIT

\* if (current >= DAILY_LIMIT) return { allowed: false, remaining: 0 }
OverLimit(current) == current >= DAILY_LIMIT

\* Mutant: the incremented count is written under every identity's key
StoreIncrement_Global(store, key, current, t) ==
    [k \in DOMAIN store |->
        [present |-> TRUE, value |-> DecStr(current + 1), expiresAt |-> t + DAY_IN_SECONDS]]

\* env.RATE_LIMIT.put(key, String(current + 1), { expirationTtl: DAY_IN_SECONDS })
StoreIncrement(store, key, current, t) ==
    KvPut(store, key, DecStr(current + 1), DAY_IN_SECONDS, t)

(***************************************************************************)
(* translateWithAzure                                                      *)
(***************************************************************************)
Indices(seq) == [i \in 1..Len(seq) |-> i]
\* Mutant: every layer goes to the provider, dictionary hit or not
IsMiss_Always(textLayers, targetLocale, i) == TRUE
IsMiss(textLayers, targetLocale, i) == ~lookupAbbrev(textLayers[i].text, targetLocale).found

\* azureLayers: the original indices of the layers the dictionary did not resolve
azureLayers(textLayers, targetLocale) ==
    LET miss(i) == IsMiss(textLayers, targetLocale, i)
    IN  SelectSeq(Indices(textLayers), miss)

\* azureBody: one { Text: contextText } per layer of azureLayers
azureBody(textLayers, targetLocale) ==
    LET idx == azureLayers(textLayers, targetLocale)
    IN  [j \in 1..Len(idx) |-> [Text |-> contextText(textLayers[idx[j]])]]

\* The position of original index i in azureLayers
BatchPos(idx, i) == CHOOSE j \in 1..Len(idx) : idx[j] = i

\* azureResults[i]?.translations?.[0]?.text || layer.text
TranslatedOrSource(azureResults, j, layer) ==
    IF j <= Len(azureResults) /\ azureResults[j].hasText /\ azureResults[j].text # <<>>
    THEN azureResults[j].text
    ELSE layer.text

\* Mutant: the dictionary's results first, the provider's results after them
MergeAzure_HitsFirst(textLayers, targetLocale, azureResults) ==
    LET idx == azureLayers(textLayers, targetLocale)
        hit(i) == ~IsMiss(textLayers, targetLocale, i)
        order == SelectSeq(Indices(textLayers), hit) \o idx
    IN  [p \in 1..Len(textLayers) |->
            LET layer == textLayers[order[p]]
                dictMatch == lookupAbbrev(layer.text, targetLocale)
            IN  IF dictMatch.found
                THEN [id |-> layer.id, translated |-> dictMatch.value]
                ELSE [id |-> layer.id,
                      translated |-> stripContext(
                          TranslatedOrSource(azureResults, BatchPos(idx, order[p]), layer),
                          layer.layerName)]]

\* The results array of translateWithAzure after the provider's successful reply
\* (with an empty azureLayers: the early return of the dictionary results).
MergeAzure(textLayers, targetLocale, azureResults) ==
    LET idx == azureLayers(textLayers, targetLocale)
    IN  [i \in 1..Len(textLayers) |->
            LET layer == textLayers[i]
                dictMatch == lookupAbbrev(layer.text, targetLocale)
            IN  IF dictMatch.found
                THEN [id |-> layer.id, translated |-> dictMatch.value]
                ELSE [id |-> layer.id,
                      translated |-> stripContext(
                          TranslatedOrSource(azureResults, BatchPos(idx, i), layer),
                          layer.layerName)]]

\* Mutant: only the bare language code is taken for the source language
isSourceLanguage_ExactOnly(targetLocale) == targetLocale = <<"e","n">>

\* targetLocale === "en" || targetLocale.startsWith("en-")
isSourceLanguage(targetLocale) ==
    targetLocale = <<"e","n">> \/ StartsWith(targetLocale, <<"e","n","-">>)

\* textLayers.map(l => ({ id: l.id, translated: l.text }))
PassThrough(textLayers) ==
    [i \in 1..Len(textLayers) |-> [id |-> textLayers[i].id, translated |-> textLayers[i].text]]

(***************************************************************************)
(* refineWithLLM                                                           *)
(***************************************************************************)
\* Mutant: the refinement stage runs whether the credential is set or not
SkipsRefinement_Never(e) == FALSE

\* if (!env.OPENAI_API_KEY) return azureResults
SkipsRefinement(e) == ~e.openaiKey

\* Mutant: the layer of a tuple taken one index too far
pairs_OffByOne(textLayers, azureResults) ==
    [i \in 1..Len(azureResults) |->
        [id |-> azureResults[i].id,
         layerName |-> IF i + 1 <= Len(textLayers) THEN textLayers[i + 1].layerName ELSE <<>>,
         original |-> IF i + 1 <= Len(textLayers) THEN textLayers[i + 1].text ELSE <<>>,
         azureTranslation |-> azureResults[i].translated]]

\* pairs: one tuple per provider result, paired with the layer at the same index
pairs(textLayers, azureResults) ==
    [i \in 1..Len(azureResults) |->
        [id |-> azureResults[i].id,
         layerName |-> IF i <= Len(textLayers) THEN textLayers[i].layerName ELSE <<>>,
         original |-> IF i <= Len(textLayers) THEN textLayers[i].text ELSE <<>>,
         azureTranslation |-> azureResults[i].translated]]

\* localeCurrencies && localeCurrencies.length > 0 ? ...join(", ") : "" throws a
\* TypeError when the value is truthy, has a positive length and no join method.
CurrencyHintThrows(localeCurrencies) == localeCurrencies = "string"

\* content.replace(/^```json\s*/i, "").replace(/```\s*$/i, "").trim(): the leading
\* fence is removed only with its json tag, the trailing fence always.
Cleaned(content) ==
    [content EXCEPT !.open = IF content.open = "fence-json" THEN "none" ELSE content.open,
                    !.close = FALSE]

\* JSON.parse(cleaned) succeeds
Parses(cleaned) == cleaned.open = "none" /\ ~cleaned.close /\ cleaned.payload.kind # "notjson"

\* if (r.id && typeof r.translated === "string") refinedMap.set(r.id, r.translated)
Accepted(r) == r.id # "" /\ r.isString

\* refinedMap.get(id): the value of the last accepted record of that id
RefinedHas(refined, id) == \E k \in 1..Len(refined) : Accepted(refined[k]) /\ refined[k].id = id
RefinedGet(refined, id) ==
    LET ks == {k \in 1..Len(refined) : Accepted(refined[k]) /\ refined[k].id = id}
    IN  refined[CHOOSE k \in ks : \A j \in ks : j <= k].translated

\* Mutant: refinedMap.get(r.id) with no fallback to the provider's value
RefinedOrAzure_NoFallback(refined, r) ==
    IF RefinedHas(refined, r.id) THEN RefinedGet(refined, r.id) ELSE <<>>

\* refinedMap.get(r.id) || r.translated
RefinedOrAzure(refined, r) ==
    IF RefinedHas(refined, r.id) /\ RefinedGet(refined, r.id) # <<>>
    THEN RefinedGet(refined, r.id)
    ELSE r.translated

\* Mutant: the result built from the records of the reply, not from azureResults
MergeRefined_FromReply(azureResults, refined) ==
    [k \in 1..Len(refined) |-> [id |-> refined[k].id, translated |-> refined[k].translated]]

\* azureResults.map(r => ({ id: r.id, translated: refinedMap.get(r.id) || r.translated }))
MergeRefined(azureResults, refined) ==
    [i \in 1..Len(azureResults) |->
        [id |-> azureResults[i].id, translated |-> RefinedOrAzure(refined, azureResults[i])]]

\* Mutant: a failed refinement yields an empty list instead of azureResults
RefineOutcome_EmptyOnFailure(azureResults, reply) ==
    IF reply.kind # "content" THEN <<>>
    ELSE IF reply.content.open # "none" \/ reply.content.payload.kind # "list" THEN <<>>
    ELSE IF \E k \in 1..Len(reply.content.payload.items) :
                reply.content.payload.items[k].isNull
         THEN azureResults
         ELSE [i \in 1..Len(azureResults) |->
                [id |-> azureResults[i].id,
                 translated |-> IF RefinedHas(reply.content.payload.items, azureResults[i].id)
                                   /\ RefinedGet(reply.content.payload.items, azureResults[i].id) # <<>>
                                THEN RefinedGet(reply.content.payload.items, azureResults[i].id)
                                ELSE azureResults[i].translated]]

\* The value refineWithLLM returns for a reply of the refinement service
RefineOutcome(azureResults, reply) ==
    IF reply.kind # "content" THEN azureResults
    ELSE IF ~Parses(Cleaned(reply.content)) THEN azureResults
    ELSE IF reply.content.payload.kind # "list" THEN azureResults
    ELSE IF \E k \in 1..Len(reply.content.payload.items) :
                reply.content.payload.items[k].isNull
         THEN azureResults
         ELSE MergeRefined(azureResults, reply.content.payload.items)

(***************************************************************************)
(* Inputs: requests, provider replies, refinement replies                  *)
(***************************************************************************)
JAN == <<"J","A","N">>
HI == <<"H","i">>
EN_GB == <<"e","n","-","G","B">>
TITLE == <<"T">>
REFINED == <<"R">>

IdSet == {"a", "b", "c"}
ForeignId == "zz"
Texts == {JAN, HI}
Locales == {FR, EN_GB}

Injective(ids) == \A i, j \in 1..Len(ids) : i # j => ids[i] # ids[j]

\* textLayers arrays of exactly n layers with pairwise different ids
LayersOfLen(n) ==
    {[i \in 1..n |-> [id |-> ids[i], layerName |-> TITLE, text |-> txt[i]]] :
        ids \in {q \in [1..n -> IdSet] : Injective(q)}, txt \in [1..n -> Texts]}

LayerSeqs == UNION {LayersOfLen(n) : n \in 0..MaxLayers}

NoLayers == [kind |-> "missing", items |-> <<>>]
ArrayOf(items) == [kind |-> "array", items |-> items]

Body(layers, locale, currencies) ==
    [parses |-> TRUE, textLayers |-> layers, targetLocale |-> locale,
     localeCurrencies |-> currencies]

MalformedBody == [parses |-> FALSE, textLayers |-> NoLayers, targetLocale |-> <<>>,
                  localeCurrencies |-> "absent"]

OneLayer == <<[id |-> "a", layerName |-> TITLE, text |-> HI]>>

\* Bodies that fail validation: textLayers missing, textLayers not an array,
\* targetLocale missing
InvalidBodies ==
    { Body(NoLayers, FR, "absent"),
      Body([kind |-> "notArray", items |-> <<>>], FR, "absent"),
      Body(ArrayOf(OneLayer), <<>>, "absent") }

ValidBodies ==
    {Body(ArrayOf(items), locale, "absent") : items \in LayerSeqs, locale \in Locales}
    \cup {Body(ArrayOf(OneLayer), FR, c) : c \in {"list", "string"}}

PipelineBodies == ValidBodies \cup InvalidBodies \cup {MalformedBody}

SmallBodies == {Body(ArrayOf(OneLayer), FR, "absent"), Body(NoLayers, FR, "absent")}

\* A layer whose text is one character longer than the documented maximum, and a
\* list one layer longer than the documented maximum (every layer a dictionary
\* entry, so the list needs no provider call)
OverLongText == [i \in 1..(MAX_CHARS_PER_LAYER + 1) |-> "x"]
TooManyLayers ==
    [i \in 1..(MAX_TEXT_LAYERS + 1) |-> [id |-> ToString(i), layerName |-> TITLE, text |-> JAN]]

OversizeBodies ==
    { Body(ArrayOf(<<[id |-> "a", layerName |-> TITLE, text |-> OverLongText]>>), FR, "absent"),
      Body(ArrayOf(TooManyLayers), FR, "absent") }

\* Texts for the abbreviation resolver: every casing of every dictionary key,
\* bare and with a space before, after or around it, and two texts that are no keys
CaseVariants(key) ==
    {t \in [1..Len(key) -> {key[i] : i \in 1..Len(key)} \cup {LowerChar(key[i]) : i \in 1..Len(key)}] :
        \A i \in 1..Len(key) : t[i] \in {key[i], LowerChar(key[i])}}
Padded(t) == {t, <<" ">> \o t, t \o <<" ">>, <<" ">> \o t \o <<" ">>}
XYZ == <<"X","Y","Z">>
ResolverTexts ==
    UNION {Padded(t) : t \in UNION {CaseVariants(k) : k \in DOMAIN ABBREV_DICT}} \cup {HI, XYZ}

\* Locales: dictionary columns, regional and upper-case forms of one, codes the
\* dictionary lacks, the source language and its regional forms
EN == <<"e","n">>
FR_CA == <<"f","r","-","C","A">>
FR_UPPER == <<"F","R">>
XX == <<"x","x">>
ZZ_ZZ == <<"z","z","-","Z","Z">>
CONSTRUCTOR == <<"c","o","n","s","t","r","u","c","t","o","r">>
EN_UPPER_GB == <<"E","N","-","g","b">>
ResolverLocales == {FR, VI, FR_CA, FR_UPPER, XX, ZZ_ZZ, CONSTRUCTOR, EN, EN_GB, EN_UPPER_GB}

ResolverBodies ==
    {Body(ArrayOf(<<[id |-> "a", layerName |-> TITLE, text |-> t]>>), l, "absent") :
        t \in ResolverTexts, l \in ResolverLocales}
    \cup {Body(ArrayOf(items), l, "absent") : items \in LayersOfLen(2), l \in {EN, EN_GB}}

Post(header, body) == [method |-> "POST", path |-> "/", header |-> header, body |-> body]
Other(method, path) ==
    [method |-> method, path |-> path, header |-> "", body |-> MalformedBody]

NonPostRequests ==
    {Other("OPTIONS", "/"), Other("GET", "/privacy"), Other("GET", "/"), Other("PUT", "/")}

Headers == {"u1", ""}

NoRequest == Other("", "")

\* What the provider may answer for one text of the batch: no translation, the
\* translation behind the echoed context prefix, the translation alone.
Core(text) == <<"~">> \o text
ProviderItems(layer) ==
    { [hasText |-> FALSE, text |-> <<>>],
      [hasText |-> TRUE, text |-> <<"[">> \o layer.layerName \o <<"]", " ">> \o Core(layer.text)],
      [hasText |-> TRUE, text |-> Core(layer.text)] }

\* Error bodies of the provider: a short one, and one a character longer than the
\* part the error message keeps
LongErrBody == [i \in 1..(ErrSliceLen + 1) |-> IF i <= ErrSliceLen THEN "x" ELSE "y"]
ErrBodies == {<<"q","u","o","t","a">>, LongErrBody}

ProviderFailures ==
    {[kind |-> "throw", errText |-> <<>>, results |-> <<>>],
     [kind |-> "ok-null", errText |-> <<>>, results |-> <<>>]}
    \cup {[kind |-> "status", errText |-> e, results |-> <<>>] : e \in ErrBodies}

ProviderOk(results) == [kind |-> "ok", errText |-> <<>>, results |-> results]

\* Replies to a batch over the layers `sent`: failures, a full-length list, and
\* the list cut short by its last entry.
ProviderReplies(sent) ==
    LET full == {r \in [1..Len(sent) -> UNION {ProviderItems(sent[j]) : j \in 1..Len(sent)}] :
                    \A j \in 1..Len(sent) : r[j] \in ProviderItems(sent[j])}
    IN  ProviderFailures
        \cup {ProviderOk(r) : r \in full}
        \cup {ProviderOk(SubSeq(r, 1, Len(r) - 1)) : r \in full}

\* Layers and provider outputs for the context codec.  A layer name may be empty
\* or hold the marker "] "; a text may have spaces around it or hold brackets.
CodecNames == {TITLE, <<>>, <<"a","]"," ","b">>}
CodecTexts == {HI, <<" ","H","i"," ">>, <<"[","a","]"," ","b">>}
CodecBodies ==
    {Body(ArrayOf(<<[id |-> "a", layerName |-> n, text |-> t]>>), FR, "absent") :
        n \in CodecNames, t \in CodecTexts}

\* Translated core contents: plain, with spaces around, with brackets inside
CodecCores == {<<"B">>, <<" ","B"," ">>, <<"L"," ","[","e","]"," ","b">>}
Filler(n) == [i \in 1..n |-> "p"]

\* What the provider may answer for a layer: no translation; a core content
\* behind the echoed prefix, bare, or behind the prefix with spaces around the
\* whole; a text whose first marker lies at a given offset from its start
CodecItem(form, core, text) == [hasText |-> form # "gap", text |-> text, form |-> form, core |-> core]
CodecItems(layer) ==
    {CodecItem("gap", <<>>, <<>>)}
    \cup {CodecItem("echoed", c, <<"[">> \o layer.layerName \o <<"]", " ">> \o c) : c \in CodecCores}
    \cup {CodecItem("bare", c, c) : c \in CodecCores}
    \cup {CodecItem("spaced", c, <<" ">> \o <<"[">> \o layer.layerName \o <<"]", " ">> \o c \o <<" ">>) :
            c \in CodecCores}
    \cup {CodecItem("offset", <<>>, Filler(k) \o <<"]", " ", "z", " ">>) :
            k \in {Len(layer.layerName) + StripSlack - 1, Len(layer.layerName) + StripSlack}}

\* Successful replies to a batch of one layer: one entry, or an empty list
CodecReplies(sent) ==
    {ProviderOk(<<item>>) : item \in CodecItems(sent[1])} \cup {ProviderOk(<<>>)}

Rec(id, translated) == [id |-> id, translated |-> translated, isString |-> TRUE, isNull |-> FALSE]
NonString(id) == [id |-> id, translated |-> <<>>, isString |-> FALSE, isNull |-> FALSE]
NullItem == [id |-> "", translated |-> <<>>, isString |-> FALSE, isNull |-> TRUE]

\* Records a refinement reply may hold for the results at hand
ReplyItems(results) ==
    {Rec(results[i].id, REFINED \o results[i].translated) : i \in 1..Len(results)}
    \cup {Rec(ForeignId, REFINED)}
    \cup (IF results = <<>> THEN {}
          ELSE {Rec(results[1].id, <<>>), NonString(results[1].id), NullItem})

ReplyLists(results) ==
    UNION {[1..n -> ReplyItems(results)] : n \in 0..MaxReply}

Content(open, payload, close) == [open |-> open, payload |-> payload, close |-> close]
ListPayload(items) == [kind |-> "list", items |-> items]
NoContent == Content("none", [kind |-> "notjson", items |-> <<>>], FALSE)

RefineFailures ==
    {[kind |-> k, content |-> NoContent] : k \in {"throw", "status", "empty"}}
    \cup {[kind |-> "content", content |-> Content("none", [kind |-> k, items |-> <<>>], FALSE)] :
            k \in {"notjson", "nonlist"}}

RefineReplies(results) ==
    RefineFailures
    \cup {[kind |-> "content", content |-> Content("none", ListPayload(l), FALSE)] :
            l \in ReplyLists(results)}
    \cup {[kind |-> "content", content |-> Content(o, ListPayload(l), TRUE)] :
            o \in {"fence-json", "fence"},
            l \in {q \in ReplyLists(results) : Len(q) <= 1}}

(***************************************************************************)
(* State                                                                   *)
(*   now   the clock, in seconds                                           *)
(*   kv    the quota store, one entry per identity                         *)
(*   env   which secrets are configured                                    *)
(*   pc    where each handler stands: idle, kvGet, kvPut, azure, openai,   *)
(*         done                                                            *)
(*   req   the request a handler serves                                    *)
(*   loc   the handler's locals: userId, current, rateCheck, results       *)
(*   resp  the response a handler produced                                 *)
(*   log   what the handler did for its request: stages entered, the batch *)
(*         sent to the provider, the tuples sent to the refinement service *)
(*         and what the two services answered, whether the quota store     *)
(*         failed under it                                                 *)
(*   hist  bookkeeping for the properties: requests received, admissions   *)
(*         granted per identity and the time the identity's window began   *)
(***************************************************************************)
NoLoc == [userId |-> "", current |-> 0, rateCheck |-> Denied, results |-> <<>>]
NoProviderReply == [kind |-> "none", errText |-> <<>>, results |-> <<>>]
NoRefineReply == [kind |-> "none", content |-> NoContent]
NoLog == [stages |-> {}, batch |-> <<>>, pairs |-> <<>>, providerCalls |-> 0, refineCalls |-> 0,
          azureReply |-> NoProviderReply, llmReply |-> NoRefineReply, storeError |-> "none"]

Response(status, kind) ==
    [status |-> status, kind |-> kind, rateLimited |-> FALSE, remaining |-> <<>>,
     results |-> <<>>, message |-> <<>>]

NoResp == Response(0, "none")

\* new Response(null, { status: 204, headers: CORS_HEADERS })
Preflight == Response(204, "preflight")
\* new Response(PRIVACY_POLICY_HTML, { status: 200, ... })
PrivacyPage == Response(200, "privacy")
\* new Response("Method not allowed", { status: 405, ... })
MethodNotAllowed == Response(405, "method")
\* { error: "Server misconfigured: ..." }, status 500
Misconfigured == Response(500, "misconfigured")
\* { error: "Daily limit reached ...", rateLimited: true }, status 429,
\* "X-RateLimit-Remaining": "0"
RateLimited == [Response(429, "rateLimited") EXCEPT !.rateLimited = TRUE, !.remaining = <<"0">>]
\* { error: "Invalid request. ..." }, status 400
InvalidRequest == Response(400, "invalid")
\* { error: "Translation error: " + err.message }, status 502
TranslationError(message) == [Response(502, "translation") EXCEPT !.message = message]
\* No Response at all: an exception leaves fetch uncaught (checkRateLimit is
\* awaited outside the try block), so the handler's promise rejects.
Unhandled == Response(0, "exception")
\* Response.json(translations, { status: 200, "X-RateLimit-Remaining": String(remaining) })
Translations(results, remaining) ==
    [Response(200, "translations") EXCEPT !.results = results, !.remaining = DecStr(remaining)]

\* `Azure Translator error (${response.status}): ${errText.slice(0, 200)}`
AzureErrorMessage(errText) == <<"A","z","u","r","e",":"," ">> \o SliceTo(errText, ErrSliceLen)
TypeErrorMessage == <<"T","y","p","e","E","r","r","o","r">>
FetchErrorMessage == <<"f","e","t","c","h">>

\* !textLayers || !Array.isArray(textLayers) || !targetLocale
FailsValidation(body) == body.textLayers.kind # "array" \/ body.targetLocale = <<>>

Finish(h, response, lc, lg) ==
    /\ pc' = [pc EXCEPT ![h] = "done"]
    /\ resp' = [resp EXCEPT ![h] = response]
    /\ loc' = [loc EXCEPT ![h] = lc]
    /\ log' = [log EXCEPT ![h] = lg]

\* refineWithLLM up to its call of the refinement service
EnterRefine(h, lc, results, lg) ==
    LET body == req[h].body
        lc2 == [lc EXCEPT !.results = results]
    IN  IF SkipsRefinement(env)
        THEN Finish(h, Translations(results, lc.rateCheck.remaining), lc2, lg)
        ELSE IF CurrencyHintThrows(body.localeCurrencies)
        THEN Finish(h, TranslationError(TypeErrorMessage), lc2, lg)
        ELSE /\ pc' = [pc EXCEPT ![h] = "openai"]
             /\ loc' = [loc EXCEPT ![h] = lc2]
             /\ log' = [log EXCEPT ![h] =
                    [lg EXCEPT !.stages = @ \cup {"refinement"},
                               !.pairs = pairs(body.textLayers.items, results),
                               !.refineCalls = @ + 1]]
             /\ UNCHANGED resp

\* The try block of fetch up to the first external call
EnterPipeline(h, lc) ==
    LET body == req[h].body
        lg1 == [log[h] EXCEPT !.stages = @ \cup {"parse"}]
        lg2 == [lg1 EXCEPT !.stages = @ \cup {"validate"}]
        lg3 == [lg2 EXCEPT !.stages = @ \cup {"dictionary"}]
        layers == body.textLayers.items
    IN  IF ~body.parses THEN Finish(h, TranslationError(TypeErrorMessage), lc, lg1)
        ELSE IF FailsValidation(body) THEN Finish(h, InvalidRequest, lc, lg2)
        ELSE IF isSourceLanguage(body.targetLocale)
        THEN EnterRefine(h, lc, PassThrough(layers), lg2)
        ELSE IF \E i \in 1..Len(layers) : lookupAbbrev(layers[i].text, body.targetLocale).throws
        THEN Finish(h, TranslationError(TypeErrorMessage), lc, lg3)
        ELSE IF azureLayers(layers, body.targetLocale) = <<>>
        THEN EnterRefine(h, lc, MergeAzure(layers, body.targetLocale, <<>>), lg3)
        ELSE /\ pc' = [pc EXCEPT ![h] = "azure"]
             /\ loc' = [loc EXCEPT ![h] = lc]
             /\ log' = [log EXCEPT ![h] =
                    [lg3 EXCEPT !.stages = @ \cup {"provider"},
                                !.batch = azureBody(layers, body.targetLocale),
                                !.providerCalls = @ + 1]]
             /\ UNCHANGED resp

\* Mutant: the credentials are not looked at before the admission check
MissingCredentials_Never(e) == FALSE

\* Mutant: only the key is looked at
MissingCredentials_KeyOnly(e) == ~e.azureKey

\* !env.AZURE_TRANSLATOR_KEY || !env.AZURE_TRANSLATOR_REGION
MissingCredentials(e) == ~e.azureKey \/ ~e.azureRegion

(***************************************************************************)
(* Actions                                                                 *)
(***************************************************************************)
\* fetch, from the arrival of the request to the read of the quota counter
Arrive(h, requests) ==
    /\ pc[h] = "idle"
    /\ \E r \in requests :
        /\ req' = [req EXCEPT ![h] = r]
        /\ IF r.method = "OPTIONS" THEN Finish(h, Preflight, NoLoc, NoLog)
           ELSE IF r.method = "GET" /\ r.path = "/privacy" THEN Finish(h, PrivacyPage, NoLoc, NoLog)
           ELSE IF r.method # "POST" THEN Finish(h, MethodNotAllowed, NoLoc, NoLog)
           ELSE IF MissingCredentials(env) THEN Finish(h, Misconfigured, NoLoc, NoLog)
           ELSE /\ pc' = [pc EXCEPT ![h] = "kvGet"]
                /\ loc' = [loc EXCEPT ![h] = [NoLoc EXCEPT !.userId = UserIdOf(r.header)]]
                /\ log' = [log EXCEPT ![h] = NoLog]
                /\ UNCHANGED resp
    /\ UNCHANGED <<now, kv, env>>
    /\ UNCHANGED pluginVars

\* A request arrives, while the run's budget of requests lasts
Receive(h, requests, budget) ==
    /\ hist.received < budget
    /\ Arrive(h, requests)
    /\ hist' = [hist EXCEPT !.received = @ + 1]

\* A request arrives; the run's length is bounded by the daily limit itself
ReceiveNext(h, requests) ==
    /\ Arrive(h, requests)
    /\ UNCHANGED hist

\* checkRateLimit: the read of the counter and the limit test
RateGet(h) ==
    /\ pc[h] = "kvGet"
    /\ LET current == ReadCurrent(kv, loc[h].userId, now)
       IN  IF OverLimit(current)
           THEN Finish(h, RateLimited, [loc[h] EXCEPT !.current = current, !.rateCheck = Denied], log[h])
           ELSE /\ pc' = [pc EXCEPT ![h] = "kvPut"]
                /\ loc' = [loc EXCEPT ![h].current = current]
                /\ UNCHANGED <<resp, log>>
    /\ UNCHANGED <<now, kv, env, req, hist>>
    /\ UNCHANGED pluginVars

\* checkRateLimit: the read of the counter fails (the store is unavailable); the
\* exception propagates out of checkRateLimit and out of fetch
RateGetFails(h) ==
    /\ pc[h] = "kvGet"
    /\ Finish(h, Unhandled, loc[h], [log[h] EXCEPT !.storeError = "get"])
    /\ UNCHANGED <<now, kv, env, req, hist>>
    /\ UNCHANGED pluginVars

\* checkRateLimit: the write of the counter fails and stores nothing; the
\* exception propagates out of checkRateLimit and out of fetch
RatePutFails(h) ==
    /\ pc[h] = "kvPut"
    /\ Finish(h, Unhandled, loc[h], [log[h] EXCEPT !.storeError = "put"])
    /\ UNCHANGED <<now, kv, env, req, hist>>
    /\ UNCHANGED pluginVars

\* checkRateLimit: the write of the counter; then fetch up to its next external call
RatePut(h) ==
    /\ pc[h] = "kvPut"
    /\ LET key == loc[h].userId
           fresh == ~KvLive(kv, key, now)
       IN  /\ kv' = StoreIncrement(kv, key, loc[h].current, now)
           /\ hist' = [hist EXCEPT
                  !.admitted[key] = IF fresh THEN 1 ELSE @ + 1,
                  !.windowStart[key] = IF fresh THEN now ELSE @]
    /\ EnterPipeline(h, [loc[h] EXCEPT !.rateCheck = Allowed(loc[h].current)])
    /\ UNCHANGED <<now, env, req>>
    /\ UNCHANGED pluginVars

\* Mutant: a failed provider call is issued once more
ProviderReply_Retry(h) ==
    /\ pc[h] = "azure"
    /\ LET body == req[h].body
           layers == body.textLayers.items
           idx == azureLayers(layers, body.targetLocale)
           sent == [j \in 1..Len(idx) |-> layers[idx[j]]]
       IN  \E reply \in ProviderReplies(sent) :
             LET lg == [log[h] EXCEPT !.azureReply = reply]
             IN  IF reply.kind # "ok" /\ log[h].providerCalls < 2
                 THEN /\ log' = [log EXCEPT ![h] = [lg EXCEPT !.providerCalls = @ + 1]]
                      /\ UNCHANGED <<pc, loc, resp>>
                 ELSE IF reply.kind # "ok"
                 THEN Finish(h, TranslationError(FetchErrorMessage), loc[h], lg)
                 ELSE EnterRefine(h, loc[h], MergeAzure(layers, body.targetLocale, reply.results), lg)
    /\ UNCHANGED <<now, kv, env, req, hist>>
    /\ UNCHANGED pluginVars

\* translateWithAzure from a successful reply of the provider on, over the
\* replies that exercise the context codec
CodecReply(h) ==
    /\ pc[h] = "azure"
    /\ LET body == req[h].body
           layers == body.textLayers.items
           idx == azureLayers(layers, body.targetLocale)
           sent == [j \in 1..Len(idx) |-> layers[idx[j]]]
       IN  \E reply \in CodecReplies(sent) :
             EnterRefine(h, loc[h], MergeAzure(layers, body.targetLocale, reply.results),
                         [log[h] EXCEPT !.azureReply = reply])
    /\ UNCHANGED <<now, kv, env, req, hist>>
    /\ UNCHANGED pluginVars

\* translateWithAzure from the provider's reply on; then refineWithLLM up to its call
ProviderReply(h) ==
    /\ pc[h] = "azure"
    /\ LET body == req[h].body
           layers == body.textLayers.items
           idx == azureLayers(layers, body.targetLocale)
           sent == [j \in 1..Len(idx) |-> layers[idx[j]]]
       IN  \E reply \in ProviderReplies(sent) :
             LET lg == [log[h] EXCEPT !.azureReply = reply]
             IN  IF reply.kind = "throw"
                 THEN Finish(h, TranslationError(FetchErrorMessage), loc[h], lg)
                 ELSE IF reply.kind = "status"
                 THEN Finish(h, TranslationError(AzureErrorMessage(reply.errText)), loc[h], lg)
                 ELSE IF reply.kind = "ok-null"
                 THEN Finish(h, TranslationError(TypeErrorMessage), loc[h], lg)
                 ELSE EnterRefine(h, loc[h], MergeAzure(layers, body.targetLocale, reply.results), lg)
    /\ UNCHANGED <<now, kv, env, req, hist>>
    /\ UNCHANGED pluginVars

\* refineWithLLM from the refinement service's reply on; then the 200 response
RefineReply(h) ==
    /\ pc[h] = "openai"
    /\ \E reply \in RefineReplies(loc[h].results) :
         Finish(h, Translations(RefineOutcome(loc[h].results, reply), loc[h].rateCheck.remaining),
                loc[h], [log[h] EXCEPT !.llmReply = reply])
    /\ UNCHANGED <<now, kv, env, req, hist>>
    /\ UNCHANGED pluginVars

\* The response is delivered and the handler is free for the next request
Complete(h) ==
    /\ pc[h] = "done"
    /\ pc' = [pc EXCEPT ![h] = "idle"]
    /\ req' = [req EXCEPT ![h] = NoRequest]
    /\ loc' = [loc EXCEPT ![h] = NoLoc]
    /\ resp' = [resp EXCEPT ![h] = NoResp]
    /\ log' = [log EXCEPT ![h] = NoLog]
    /\ UNCHANGED <<now, kv, env, hist>>
    /\ UNCHANGED pluginVars

\* Time passes
Tick ==
    /\ now < MaxTicks * TickStep
    /\ now' = now + TickStep
    /\ UNCHANGED <<kv, env, pc, req, loc, resp, log, hist>>
    /\ UNCHANGED pluginVars

(***************************************************************************)
(* Figma plugin (sandbox side).                                            *)
(*                                                                         *)
(* The plugin runs on one JavaScript thread: a handler runs without        *)
(* interruption up to its next await, and handlers interleave at their     *)
(* awaits (the frame export, the node lookup, the font loading, the calls  *)
(* of the client storage).                                                 *)
(*                                                                         *)
(*   selectionGeneration  the counter of handleSelectionChange             *)
(*   selection            figma.currentPage.selection, a list of node ids  *)
(*   exports              the invocations of handleSelectionChange that    *)
(*                        await their frame export                         *)
(*   ui                   the messages posted to the UI, in order          *)
(*   page                 the locale clones on the page, in creation order *)
(*   applying             the invocations of the apply-translations        *)
(*                        handler                                          *)
(*   clientStorage        the value stored under "localePresets"           *)
(*   presetOps            the storage calls in flight, in order of issue   *)
(*   expected             bookkeeping for the properties: per preset name, *)
(*                        what the messages received so far ask for        *)
(***************************************************************************)
MaxSelections == 3

Msg(type, id, image) == [type |-> type, id |-> id, image |-> image]
\* figma.ui.postMessage({ type: "user-info", userId: ... })
UserInfoMsg == Msg("user-info", "", FALSE)
\* figma.ui.postMessage({ type: "no-selection" })
NoSelectionMsg == Msg("no-selection", "", FALSE)
\* figma.ui.postMessage({ type: "frame-selected", payload: { id: node.id, ..., imageBase64, ... } })
FrameSelectedMsg(id, image) == Msg("frame-selected", id, image)
\* figma.ui.postMessage({ type: "apply-done" })
ApplyDoneMsg == Msg("apply-done", "", FALSE)
\* figma.ui.postMessage({ type: "presets-updated", presets: ... })
PresetsUpdatedMsg == Msg("presets-updated", "", FALSE)

\* The nodes of the page: two frames and a text layer outside them
NodeType(id) == IF id \in {"f1", "f2"} THEN "FRAME" ELSE "TEXT"

\* What the user may select: nothing, one frame, the text layer, both frames
Selections == {<<>>, <<"f1">>, <<"f2">>, <<"t1">>, <<"f1", "f2">>}

\* sel.length === 1 && (sel[0].type === "FRAME" || ... || sel[0].type === "SECTION")
IsContainerSelection(sel) ==
    /\ Len(sel) = 1
    /\ NodeType(sel[1]) \in {"FRAME", "COMPONENT", "INSTANCE", "GROUP", "SECTION"}

\* Mutant: the handler never bails
Superseded_Never(gen, current) == FALSE

\* if (gen !== selectionGeneration) return;
Superseded(gen, current) == gen # current

\* handleSelectionChange from its call to the await of the frame export: at
\* launch (the selection as it is) and on every selectionchange event
handleSelectionChange(sel) ==
    /\ selectionGeneration < MaxSelections
    /\ selection' = sel
    /\ selectionGeneration' = selectionGeneration + 1
    /\ IF IsContainerSelection(sel)
       THEN /\ exports' = exports \cup {[gen |-> selectionGeneration + 1, node |-> sel[1]]}
            /\ UNCHANGED ui
       ELSE /\ ui' = Append(ui, NoSelectionMsg)
            /\ UNCHANGED exports
    /\ UNCHANGED <<page, applying, clientStorage, presetOps, expected>>
    /\ UNCHANGED workerVars

\* The invocations that may await an export
PendingExports == [gen : 1..MaxSelections, node : {"f1", "f2"}]

\* handleSelectionChange from the end of its frame export on; a failed export is
\* caught and leaves the image empty
ExportSettles(e, exported) ==
    /\ e \in exports
    /\ exports' = exports \ {e}
    /\ IF Superseded(e.gen, selectionGeneration)
       THEN UNCHANGED ui
       ELSE ui' = Append(ui, FrameSelectedMsg(e.node, exported))
    /\ UNCHANGED <<selectionGeneration, selection, page, applying, clientStorage,
                   presetOps, expected>>
    /\ UNCHANGED workerVars

(***************************************************************************)
(* apply-translations                                                      *)
(***************************************************************************)
NumApply == 2
MaxLocales == 3
SourceX == 0
SourceWidth == 100
\* const GAP = 50;
GAP == 50

ApplyHandlers == 1..NumApply

\* The source frame on the page: its name and its text nodes in tree order (what
\* collectTextNodes returns), each with its font and its horizontal alignment
SourceName == "Home"
SourceTexts ==
    <<[id |-> "t1", characters |-> "Hello", font |-> "A", align |-> "LEFT"],
      [id |-> "t2", characters |-> "Price", font |-> "B", align |-> "CENTER"]>>
Fonts == {SourceTexts[k].font : k \in 1..Len(SourceTexts)}

\* Payloads.  A value the handler tests with typeof or Array.isArray carries the
\* answer of that test; null is an entry or a layer that is no object at all.
TLayer(id, translated) ==
    [isNull |-> FALSE, id |-> id, idIsString |-> TRUE,
     translated |-> translated, translatedIsString |-> TRUE]
NullLayer == [TLayer("", "") EXCEPT !.isNull = TRUE]
Entry(locale, localeCode, layers) ==
    [isNull |-> FALSE, locale |-> locale, localeIsString |-> TRUE, localeCode |-> localeCode,
     layersIsList |-> TRUE, layers |-> layers]
NullEntry == [Entry("", "", <<>>) EXCEPT !.isNull = TRUE]
ApplyMsg(sourceFrameId, translations) ==
    [sourceFrameId |-> sourceFrameId, sourceIsString |-> TRUE,
     translationsIsList |-> TRUE, translations |-> translations]
NoApplyMsg == ApplyMsg("", <<>>)

FrEntry == Entry("French", "fr", <<TLayer("t1", "Bonjour"), TLayer("t2", "Prix")>>)
ArEntry == Entry("Arabic", "ar", <<TLayer("t1", "Marhaban")>>)

ValidPayloads ==
    {ApplyMsg("f1", ts) : ts \in UNION {[1..n -> {FrEntry, ArEntry}] : n \in 0..MaxLocales}}
    \cup {ApplyMsg("zz", <<FrEntry>>)}

\* Payloads that fail one of the handler's tests, the failing part behind a valid
\* entry or a valid layer
InvalidPayloads ==
    {[ApplyMsg("", <<FrEntry>>) EXCEPT !.sourceIsString = FALSE],
     [ApplyMsg("f1", <<>>) EXCEPT !.translationsIsList = FALSE],
     ApplyMsg("f1", <<FrEntry, [FrEntry EXCEPT !.localeIsString = FALSE]>>),
     ApplyMsg("f1", <<FrEntry, [Entry("German", "de", <<>>) EXCEPT !.layersIsList = FALSE]>>),
     ApplyMsg("f1", <<FrEntry, Entry("German", "de",
                        <<TLayer("t1", "Hallo"), [TLayer("", "Preis") EXCEPT !.idIsString = FALSE]>>)>>),
     ApplyMsg("f1", <<Entry("German", "de",
                        <<[TLayer("t1", "") EXCEPT !.translatedIsString = FALSE]>>)>>)}

\* Payloads with null where an object is expected
NullPayloads ==
    {ApplyMsg("f1", <<NullEntry>>),
     ApplyMsg("f1", <<FrEntry, Entry("German", "de", <<NullLayer>>)>>)}

ApplyMessages == ValidPayloads \cup InvalidPayloads \cup NullPayloads

\* typeof layer.id !== "string" || typeof layer.translated !== "string"; reading a
\* property of null throws a TypeError
LayerCheck(layer) ==
    IF layer.isNull THEN "throws"
    ELSE IF ~layer.idIsString \/ ~layer.translatedIsString THEN "invalid"
    ELSE "valid"

\* for (const layer of t.layers): the first layer that does not pass decides
LayersCheck(layers) ==
    LET bad == {i \in 1..Len(layers) : LayerCheck(layers[i]) # "valid"}
    IN  IF bad = {} THEN "valid"
        ELSE LayerCheck(layers[CHOOSE i \in bad : \A j \in bad : i <= j])

\* typeof t.locale !== "string" || !Array.isArray(t.layers), then the layers
EntryCheck(t) ==
    IF t.isNull THEN "throws"
    ELSE IF ~t.localeIsString \/ ~t.layersIsList THEN "invalid"
    ELSE LayersCheck(t.layers)

\* Mutant: only the two top-level tests are made
ValidatePayload_TopOnly(msg) ==
    IF ~msg.sourceIsString \/ ~msg.translationsIsList THEN "invalid" ELSE "valid"

\* The input validation of the handler: the two top-level tests, then every entry
\* in order; the first entry that does not pass decides
ValidatePayload(msg) ==
    IF ~msg.sourceIsString \/ ~msg.translationsIsList THEN "invalid"
    ELSE LET ts == msg.translations
             bad == {i \in 1..Len(ts) : EntryCheck(ts[i]) # "valid"}
         IN  IF bad = {} THEN "valid"
             ELSE EntryCheck(ts[CHOOSE i \in bad : \A j \in bad : i <= j])

\* !sourceNode || !("clone" in sourceNode)
SourceFound(sourceFrameId) == sourceFrameId = "f1"

\* The siblings of the source whose name starts with source.name + " - "
existingClones(pg) == Cardinality({k \in 1..Len(pg) : pg[k].name[1] = SourceName})

\* RTL_CODES.includes(base), for the lower-case codes without region of the model
isRtlLocale(code) == code \in {"ar", "he", "fa", "ur", "ps", "yi", "sd", "ku"}

\* layerMap.has(id): some layer of the entry carries the id
LayerMapHas(layers, id) == \E i \in 1..Len(layers) : layers[i].id = id

\* layerMap.get(id): the last layer set under the id
LayerMapGet(layers, id) ==
    LET at == {i \in 1..Len(layers) : layers[i].id = id}
    IN  layers[CHOOSE i \in at : \A j \in at : j <= i].translated

\* source.clone(): a copy of the source with the name and the position the
\* handler gives it
NewClone(a, t, offsetX) ==
    [name |-> <<SourceName, t.locale>>,
     x |-> SourceX + offsetX,
     owner |-> a,
     texts |-> [k \in 1..Len(SourceTexts) |->
                  [characters |-> SourceTexts[k].characters, align |-> SourceTexts[k].align]]]

\* cloneText.characters = newText inside try: the assignment throws on a node
\* whose font is not loaded, and the node keeps its text
SetTexts(texts, layers, failed) ==
    [k \in 1..Len(texts) |->
        IF /\ LayerMapHas(layers, SourceTexts[k].id)
           /\ texts[k].characters # ""
           /\ SourceTexts[k].font \notin failed
        THEN [texts[k] EXCEPT !.characters = LayerMapGet(layers, SourceTexts[k].id)]
        ELSE texts[k]]

\* mirrorForRtl writes textAlignHorizontal of the text nodes aligned LEFT or
\* RIGHT; the write throws on a node whose font is not loaded
MirrorThrows(texts, failed) ==
    \E k \in 1..Len(texts) :
        texts[k].align \in {"LEFT", "RIGHT"} /\ SourceTexts[k].font \in failed

\* mirrorForRtl(clone), up to the node whose write throws
mirrorForRtl(texts, failed) ==
    LET stop == {k \in 1..Len(texts) :
                    texts[k].align \in {"LEFT", "RIGHT"} /\ SourceTexts[k].font \in failed}
        upTo == IF stop = {} THEN Len(texts) ELSE (CHOOSE k \in stop : \A j \in stop : k <= j) - 1
    IN  [k \in 1..Len(texts) |->
            IF k <= upTo /\ texts[k].align = "LEFT" THEN [texts[k] EXCEPT !.align = "RIGHT"]
            ELSE IF k <= upTo /\ texts[k].align = "RIGHT" THEN [texts[k] EXCEPT !.align = "LEFT"]
            ELSE texts[k]]

IdleApply == [pc |-> "idle", msg |-> NoApplyMsg, i |-> 0, offsetX |-> 0, clone |-> 0, posted |-> 0]

\* The handler returns after figma.ui.postMessage({ type: "apply-done" })
ApplyReturns(a, rec) ==
    /\ applying' = [applying EXCEPT ![a] = [rec EXCEPT !.pc = "returned", !.posted = @ + 1]]
    /\ ui' = Append(ui, ApplyDoneMsg)

\* One turn of the loop over the translations, from source.clone() to the await
\* of the font loading
CloneNext(a, rec, i) ==
    /\ page' = Append(page, NewClone(a, rec.msg.translations[i], rec.offsetX))
    /\ applying' = [applying EXCEPT ![a] =
           [rec EXCEPT !.pc = "fonts", !.i = i, !.clone = Len(page) + 1,
                       !.offsetX = @ + SourceWidth + GAP]]
    /\ UNCHANGED ui

\* figma.ui.onmessage for an apply-translations message, up to the await of
\* figma.getNodeByIdAsync
ApplyReceive(a, msg) ==
    /\ applying[a].pc = "idle"
    /\ LET rec == [applying[a] EXCEPT !.msg = msg]
           verdict == ValidatePayload(msg)
       IN  IF verdict = "invalid" THEN ApplyReturns(a, rec)
           ELSE IF verdict = "throws"
           THEN /\ applying' = [applying EXCEPT ![a] = [rec EXCEPT !.pc = "rejected"]]
                /\ UNCHANGED ui
           ELSE /\ applying' = [applying EXCEPT ![a] = [rec EXCEPT !.pc = "lookup"]]
                /\ UNCHANGED ui
    /\ UNCHANGED <<selectionGeneration, selection, exports, page, clientStorage,
                   presetOps, expected>>
    /\ UNCHANGED workerVars

\* The handler from the answer of figma.getNodeByIdAsync to the await of the
\* first clone's fonts
ApplyLookup(a) ==
    /\ applying[a].pc = "lookup"
    /\ LET msg == applying[a].msg
           rec == [applying[a] EXCEPT
                      !.offsetX = (SourceWidth + GAP) * (existingClones(page) + 1)]
       IN  IF ~SourceFound(msg.sourceFrameId) THEN ApplyReturns(a, applying[a]) /\ UNCHANGED page
           ELSE IF msg.translations = <<>> THEN ApplyReturns(a, rec) /\ UNCHANGED page
           ELSE CloneNext(a, rec, 1)
    /\ UNCHANGED <<selectionGeneration, selection, exports, clientStorage, presetOps, expected>>
    /\ UNCHANGED workerVars

\* The handler from the end of the font loading of a clone (the fonts in failed
\* did not load; the rejection is swallowed) to the await of the next clone's
\* fonts, or to its end
ApplyFonts(a, failed) ==
    /\ applying[a].pc = "fonts"
    /\ LET rec == applying[a]
           t == rec.msg.translations[rec.i]
           c == rec.clone
           set == SetTexts(page[c].texts, t.layers, failed)
           rtl == isRtlLocale(t.localeCode)
           final == IF rtl THEN mirrorForRtl(set, failed) ELSE set
           pg == [page EXCEPT ![c].texts = final]
       IN  IF rtl /\ MirrorThrows(set, failed)
           THEN /\ page' = pg
                /\ applying' = [applying EXCEPT ![a] = [rec EXCEPT !.pc = "rejected"]]
                /\ UNCHANGED ui
           ELSE IF rec.i < Len(rec.msg.translations)
           THEN /\ page' = Append(pg, NewClone(a, rec.msg.translations[rec.i + 1], rec.offsetX))
                /\ applying' = [applying EXCEPT ![a] =
                       [rec EXCEPT !.i = @ + 1, !.clone = Len(page) + 1,
                                   !.offsetX = @ + SourceWidth + GAP]]
                /\ UNCHANGED ui
           ELSE /\ page' = pg
                /\ ApplyReturns(a, rec)
    /\ UNCHANGED <<selectionGeneration, selection, exports, clientStorage, presetOps, expected>>
    /\ UNCHANGED workerVars

(***************************************************************************)
(* Locale presets in figma.clientStorage.  The storage serves its calls in *)
(* the order of their issue and every call succeeds; a message whose name  *)
(* is no string or whose locales are no list starts no call and is left    *)
(* out.                                                                    *)
(***************************************************************************)
MaxPresetMsgs == 3

PresetNames == {"p1", "p2"}
\* Locale lists, opaque
PresetLocales == {"fr,de", "ja"}

Preset(name, locales) == [name |-> name, locales |-> locales]
StorageCall(call, kind, name, locales, value) ==
    [call |-> call, kind |-> kind, name |-> name, locales |-> locales, value |-> value]

\* Array.isArray(presets) ? presets : [] -- the stored value of the model is
\* always a list, empty before the first write
\* const idx = all.findIndex(p => p.name === name);
\* if (idx >= 0) all[idx] = { name, locales }; else all.push({ name, locales });
SavedList(all, name, locales) ==
    LET at == {i \in 1..Len(all) : all[i].name = name}
    IN  IF at = {} THEN Append(all, Preset(name, locales))
        ELSE [all EXCEPT ![CHOOSE i \in at : \A j \in at : i <= j] = Preset(name, locales)]

\* all.filter(p => p.name !== name)
FilteredList(all, name) == SelectSeq(all, LAMBDA p : p.name # name)

\* save-preset, up to the call of clientStorage.getAsync
SavePreset(name, locales) ==
    /\ expected.count < MaxPresetMsgs
    /\ presetOps' = Append(presetOps, StorageCall("get", "save", name, locales, <<>>))
    /\ expected' = [expected EXCEPT !.count = @ + 1, !.want[name] = locales]
    /\ UNCHANGED <<selectionGeneration, selection, exports, ui, page, applying, clientStorage>>
    /\ UNCHANGED workerVars

\* delete-preset, up to the call of clientStorage.getAsync
DeletePreset(name) ==
    /\ expected.count < MaxPresetMsgs
    /\ presetOps' = Append(presetOps, StorageCall("get", "delete", name, "", <<>>))
    /\ expected' = [expected EXCEPT !.count = @ + 1, !.want[name] = ""]
    /\ UNCHANGED <<selectionGeneration, selection, exports, ui, page, applying, clientStorage>>
    /\ UNCHANGED workerVars

\* getAsync resolves with the stored list; the then-callback builds the new list,
\* calls setAsync with it and posts presets-updated
StorageGetResolves ==
    /\ presetOps # <<>>
    /\ Head(presetOps).call = "get"
    /\ LET op == Head(presetOps)
           value == IF op.kind = "save" THEN SavedList(clientStorage, op.name, op.locales)
                    ELSE FilteredList(clientStorage, op.name)
       IN  presetOps' = Append(Tail(presetOps),
                               StorageCall("set", op.kind, op.name, op.locales, value))
    /\ ui' = Append(ui, PresetsUpdatedMsg)
    /\ UNCHANGED <<selectionGeneration, selection, exports, page, applying, clientStorage,
                   expected>>
    /\ UNCHANGED workerVars

\* setAsync stores its list
StorageSetResolves ==
    /\ presetOps # <<>>
    /\ Head(presetOps).call = "set"
    /\ clientStorage' = Head(presetOps).value
    /\ presetOps' = Tail(presetOps)
    /\ UNCHANGED <<selectionGeneration, selection, exports, ui, page, applying, expected>>
    /\ UNCHANGED workerVars

\* The plugin after figma.showUI and the user-info message, before the launch
\* call of handleSelectionChange; nothing selected, no clone on the page, nothing
\* stored
PluginIdle ==
    /\ selectionGeneration = 0
    /\ selection = <<>>
    /\ exports = {}
    /\ ui = <<UserInfoMsg>>
    /\ page = <<>>
    /\ applying = [a \in ApplyHandlers |-> IdleApply]
    /\ clientStorage = <<>>
    /\ presetOps = <<>>
    /\ expected = [count |-> 0, want |-> [n \in PresetNames |-> ""]]

(***************************************************************************)
(* Specifications                                                          *)
(***************************************************************************)
Env(key, region, openai) == [azureKey |-> key, azureRegion |-> region, openaiKey |-> openai]

\* A counter a run of sequential admissions at time 0 leaves behind
StoredCount(n) == [present |-> TRUE, value |-> DecStr(n), expiresAt |-> DAY_IN_SECONDS]
NearLimit == DAILY_LIMIT - NearLimitGap

InitHandlers ==
    /\ now = 0
    /\ pc = [h \in Handlers |-> "idle"]
    /\ req = [h \in Handlers |-> NoRequest]
    /\ loc = [h \in Handlers |-> NoLoc]
    /\ resp = [h \in Handlers |-> NoResp]
    /\ log = [h \in Handlers |-> NoLog]
    /\ PluginIdle

InitEmptyStore ==
    /\ kv = [k \in Identities |-> AbsentKey]
    /\ hist = [received |-> 0,
               admitted |-> [k \in Identities |-> 0],
               windowStart |-> [k \in Identities |-> 0]]

\* Concurrent handlers serving small requests, every identity's counter a few
\* admissions below the daily limit, no refinement credential, no passage of time
\* (all admissions fall in one window).
Init ==
    /\ InitHandlers
    /\ env = Env(TRUE, TRUE, FALSE)
    /\ kv = [k \in Identities |-> StoredCount(NearLimit)]
    /\ hist = [received |-> 0,
               admitted |-> [k \in Identities |-> NearLimit],
               windowStart |-> [k \in Identities |-> 0]]

SmallRequests == {Post(hd, b) : hd \in Headers, b \in SmallBodies}

Next ==
    \E h \in Handlers :
        \/ Receive(h, SmallRequests, MaxRequests)
        \/ RateGet(h)
        \/ RatePut(h)
        \/ ProviderReply(h)
        \/ Complete(h)

Spec == Init /\ [][Next]_vars

\* One request through the whole pipeline, over the rich request bodies, the
\* caller's counter absent or at the daily limit.
InitPipeline ==
    /\ InitHandlers
    /\ env \in {Env(TRUE, TRUE, TRUE), Env(TRUE, TRUE, FALSE)}
    /\ \E n \in {0, DAILY_LIMIT} :
        /\ kv = [k \in Identities |-> IF n = 0 THEN AbsentKey ELSE StoredCount(n)]
        /\ hist = [received |-> 0,
                   admitted |-> [k \in Identities |-> n],
                   windowStart |-> [k \in Identities |-> 0]]

PipelineRequests == {Post("u1", b) : b \in PipelineBodies}

NextPipeline ==
    \/ Receive(1, PipelineRequests, 1)
    \/ RateGet(1)
    \/ RatePut(1)
    \/ ProviderReply(1)
    \/ RefineReply(1)
    \/ Complete(1)

SpecPipeline == InitPipeline /\ [][NextPipeline]_vars

\* The pipeline with its progress assumptions: the quota store and the provider
\* answer every call.  Nothing is assumed of the refinement service: the code sets
\* no timeout on its call, and the service may never answer.
SpecLive ==
    /\ InitPipeline
    /\ [][NextPipeline]_vars
    /\ WF_vars(RateGet(1))
    /\ WF_vars(RatePut(1))
    /\ WF_vars(ProviderReply(1))

\* One handler serving requests one after the other from an empty store, past the
\* daily limit, while time passes.
InitWindow ==
    /\ InitHandlers
    /\ InitEmptyStore
    /\ env = Env(TRUE, TRUE, FALSE)

WindowRequests == {Post("u1", b) : b \in SmallBodies}

NextWindow ==
    \/ ReceiveNext(1, WindowRequests)
    \/ RateGet(1)
    \/ RatePut(1)
    \/ ProviderReply(1)
    \/ Complete(1)
    \/ Tick

SpecWindow == InitWindow /\ [][NextWindow]_vars

\* One handler serving requests one after the other from an empty store, past the
\* daily limit, with no passage of time: every admission falls in one window.
SequentialRequests == {Post(hd, b) : hd \in Headers, b \in SmallBodies}

NextSequential ==
    \/ ReceiveNext(1, SequentialRequests)
    \/ RateGet(1)
    \/ RatePut(1)
    \/ ProviderReply(1)
    \/ Complete(1)

SpecSequential == InitWindow /\ [][NextSequential]_vars

\* One request of any method, with any subset of the provider's credentials
\* configured, against a quota store that may fail on its read or on its write.
InitFaults ==
    /\ InitHandlers
    /\ InitEmptyStore
    /\ env \in {Env(k, r, FALSE) : k, r \in BOOLEAN}

FaultRequests == {Post(hd, b) : hd \in Headers, b \in PipelineBodies} \cup NonPostRequests

NextFaults ==
    \/ Receive(1, FaultRequests, 1)
    \/ RateGet(1)
    \/ RateGetFails(1)
    \/ RatePut(1)
    \/ RatePutFails(1)
    \/ ProviderReply(1)
    \/ Complete(1)

SpecFaults == InitFaults /\ [][NextFaults]_vars

\* One request whose payload is of ordinary size or larger than the documented
\* limits, the caller's counter absent, no refinement credential.
LimitRequests ==
    {Post("u1", b) :
        b \in OversizeBodies \cup {Body(ArrayOf(items), FR, "absent") : items \in LayerSeqs}}

NextLimits ==
    \/ Receive(1, LimitRequests, 1)
    \/ RateGet(1)
    \/ RatePut(1)
    \/ ProviderReply(1)
    \/ Complete(1)

SpecLimits == InitWindow /\ [][NextLimits]_vars

\* One request of one layer (two for the source language) over the resolver's
\* texts and locales, the caller's counter absent, no refinement credential.
ResolverRequests == {Post("u1", b) : b \in ResolverBodies}

NextResolver ==
    \/ Receive(1, ResolverRequests, 1)
    \/ RateGet(1)
    \/ RatePut(1)
    \/ ProviderReply(1)
    \/ Complete(1)

SpecResolver == InitWindow /\ [][NextResolver]_vars

\* One request of one layer over the codec's layer names and texts, answered by
\* the provider over the codec's outputs; no refinement credential.
CodecRequests == {Post("u1", b) : b \in CodecBodies}

NextCodec ==
    \/ Receive(1, CodecRequests, 1)
    \/ RateGet(1)
    \/ RatePut(1)
    \/ CodecReply(1)
    \/ Complete(1)

SpecCodec == InitWindow /\ [][NextCodec]_vars

\* The selection watcher of the plugin: selection changes and frame exports that
\* settle in any order; the worker at rest.
NextSelection ==
    \/ \E sel \in Selections : handleSelectionChange(sel)
    \/ \E e \in PendingExports, exported \in BOOLEAN : ExportSettles(e, exported)

SpecSelection == InitWindow /\ [][NextSelection]_vars

\* One invocation of the apply-translations handler over valid, invalid and null
\* payloads, any of the fonts failing to load; the worker at rest.
NextApply ==
    \/ \E msg \in ApplyMessages : ApplyReceive(1, msg)
    \/ ApplyLookup(1)
    \/ \E failed \in SUBSET Fonts : ApplyFonts(1, failed)

SpecApply == InitWindow /\ [][NextApply]_vars

\* Invocations of the apply-translations handler for the one source frame over
\* valid payloads, interleaved at their awaits; the worker at rest.
MaxCloneLocales == 2
ClonePayloads == {msg \in ValidPayloads : Len(msg.translations) <= MaxCloneLocales}

NextClones ==
    \E a \in ApplyHandlers :
        \/ \E msg \in ClonePayloads : ApplyReceive(a, msg)
        \/ ApplyLookup(a)
        \/ \E failed \in SUBSET Fonts : ApplyFonts(a, failed)

SpecClones == InitWindow /\ [][NextClones]_vars

\* save-preset and delete-preset messages against the client storage; the worker
\* at rest.
NextPresets ==
    \/ \E name \in PresetNames, locales \in PresetLocales : SavePreset(name, locales)
    \/ \E name \in PresetNames : DeletePreset(name)
    \/ StorageGetResolves
    \/ StorageSetResolves

SpecPresets == InitWindow /\ [][NextPresets]_vars

(***************************************************************************)
(* Properties                                                              *)
(***************************************************************************)
Served(h) == pc[h] = "done"
LayersOf(h) == req[h].body.textLayers.items
IdsOf(seq) == {seq[i].id : i \in 1..Len(seq)}
DictHit(h, i) == lookupAbbrev(LayersOf(h)[i].text, req[h].body.targetLocale).found
ListReplied(h) ==
    /\ log[h].llmReply.kind = "content"
    /\ log[h].llmReply.content.payload.kind = "list"
ReplyItemsOf(h) == log[h].llmReply.content.payload.items

\* C1: every 200 response holds exactly one record per textLayer id of the request:
\* as many records as layers, the same set of ids, no id twice.
C1_ResponseIdsEqualRequestIds ==
    \A h \in Handlers :
        (Served(h) /\ resp[h].status = 200 /\ resp[h].kind = "translations") =>
            /\ Len(resp[h].results) = Len(LayersOf(h))
            /\ IdsOf(resp[h].results) = IdsOf(LayersOf(h))
            /\ Injective([i \in 1..Len(resp[h].results) |-> resp[h].results[i].id])

\* C1 witness: a 200 response for two layers, one resolved by the dictionary, one
\* left without translation by the provider, with a refinement that changed a value.
C1_Witness ==
    \E h \in Handlers :
        /\ Served(h) /\ resp[h].status = 200 /\ resp[h].kind = "translations"
        /\ Len(LayersOf(h)) = 2
        /\ \E i \in 1..2 : DictHit(h, i)
        /\ log[h].azureReply.kind = "ok"
        /\ \E j \in 1..Len(log[h].azureReply.results) : ~log[h].azureReply.results[j].hasText
        /\ ListReplied(h)
        /\ resp[h].results # loc[h].results

\* C2: within one window the number of admissions granted to an identity never
\* exceeds the daily limit, whatever the interleaving of the handlers.
C2_AdmissionsNeverExceedLimit ==
    \A k \in Identities : hist.admitted[k] <= DAILY_LIMIT

\* C3: for sequential admissions the k-th allowed call of a window returns
\* remaining = 25 - k and stores the count k (k = 1..25); a denied call comes only
\* after 25 allowed ones, returns remaining 0 and leaves the stored count at 25;
\* remaining is never negative.
C3_SequentialAdmission ==
    \A h \in Handlers :
        /\ (pc[h] \in {"azure", "openai", "done"} /\ loc[h].rateCheck.allowed) =>
              /\ hist.admitted[loc[h].userId] \in 1..DAILY_LIMIT
              /\ loc[h].rateCheck.remaining = DAILY_LIMIT - hist.admitted[loc[h].userId]
              /\ loc[h].rateCheck.remaining >= 0
              /\ KvLive(kv, loc[h].userId, now) =>
                    kv[loc[h].userId].value = DecStr(hist.admitted[loc[h].userId])
        /\ (Served(h) /\ resp[h].status = 429) =>
              /\ hist.admitted[loc[h].userId] = DAILY_LIMIT
              /\ loc[h].rateCheck = [allowed |-> FALSE, remaining |-> 0]
              /\ KvLive(kv, loc[h].userId, now) =>
                    kv[loc[h].userId].value = DecStr(DAILY_LIMIT)

\* C3 witness: the call after the 25th allowed one of a window has been denied.
C3_Witness ==
    \E h \in Handlers :
        /\ Served(h) /\ resp[h].status = 429
        /\ hist.admitted[loc[h].userId] = DAILY_LIMIT
        /\ KvLive(kv, loc[h].userId, now)

\* C4: a POST request that fails validation is answered with 400 and leaves the
\* caller's stored count as the request found it.
C4_InvalidRequestConsumesNoQuota ==
    \A h \in Handlers :
        (Served(h) /\ req[h].method = "POST" /\ req[h].body.parses
                   /\ FailsValidation(req[h].body)) =>
            /\ resp[h].status = 400
            /\ ReadCurrent(kv, UserIdOf(req[h].header), now) = loc[h].current

\* C5: a request whose admission is denied (the counter read is at the limit) is
\* answered with 429, rateLimited: true and the remaining-quota header "0", and
\* none of the later stages ran for it: no parsing or validation of the body, no
\* dictionary lookup, no provider call, no refinement call.
C5_DeniedRunsNoStage ==
    \A h \in Handlers :
        (Served(h) /\ req[h].method = "POST" /\ loc[h].userId # ""
                   /\ loc[h].current >= DAILY_LIMIT) =>
            /\ resp[h].status = 429
            /\ resp[h].rateLimited
            /\ resp[h].remaining = <<"0">>
            /\ log[h].stages = {}
            /\ log[h].providerCalls = 0 /\ log[h].batch = <<>>
            /\ log[h].refineCalls = 0 /\ log[h].pairs = <<>>

\* C5 witness: a denied request whose body is valid and would have needed the
\* provider, with the refinement credential configured.
C5_Witness ==
    \E h \in Handlers :
        /\ Served(h) /\ resp[h].status = 429
        /\ env.openaiKey
        /\ ~FailsValidation(req[h].body)
        /\ \E i \in 1..Len(LayersOf(h)) : ~DictHit(h, i)

\* C6: the expiry of a live counter is one day after the first allowed admission
\* of its window.
C6_FixedWindow ==
    \A k \in Identities :
        KvLive(kv, k, now) => kv[k].expiresAt = hist.windowStart[k] + DAY_IN_SECONDS

\* The refinement call threw, returned a non-success status, returned no content,
\* returned content that is not JSON, or returned JSON that is not a list.
RefinementFailed(reply) ==
    \/ reply.kind \in {"throw", "status", "empty"}
    \/ /\ reply.kind = "content"
       /\ reply.content.open = "none"
       /\ reply.content.payload.kind \in {"notjson", "nonlist"}

\* C7: with the refinement credential configured, a failed refinement call leaves
\* the pre-refinement results as the response (same ids, same translated strings,
\* same order) and the request ends with status 200.
C7_RefineFailureFallsBack ==
    \A h \in Handlers :
        (Served(h) /\ env.openaiKey /\ RefinementFailed(log[h].llmReply)) =>
            /\ resp[h].status = 200
            /\ resp[h].results = loc[h].results
            /\ Len(resp[h].results) = Len(LayersOf(h))

\* C7 witness: a request of two layers answered after the refinement service
\* returned JSON that is not a list.
C7_Witness ==
    \E h \in Handlers :
        /\ Served(h) /\ env.openaiKey
        /\ log[h].llmReply.kind = "content"
        /\ log[h].llmReply.content.payload.kind = "nonlist"
        /\ Len(resp[h].results) = 2
        /\ resp[h].status = 200

\* C8: for a refinement reply that is a list, the final result has the ids of the
\* pre-refinement results, position by position (none dropped, none added), and an
\* id that does not occur in the reply keeps its pre-refinement value.
C8_MergeById ==
    \A h \in Handlers :
        (Served(h) /\ ListReplied(h)) =>
            /\ Len(resp[h].results) = Len(loc[h].results)
            /\ \A i \in 1..Len(loc[h].results) :
                /\ resp[h].results[i].id = loc[h].results[i].id
                /\ loc[h].results[i].id \notin IdsOf(ReplyItemsOf(h)) =>
                      resp[h].results[i].translated = loc[h].results[i].translated

\* C8 witness: the reply holds a record of an id that is not in the results and a
\* record that refined one of two results, and lacks the other result's id.
C8_Witness ==
    \E h \in Handlers :
        /\ Served(h) /\ ListReplied(h)
        /\ Len(loc[h].results) = 2
        /\ ForeignId \in IdsOf(ReplyItemsOf(h))
        /\ \E i \in 1..2 : loc[h].results[i].id \notin IdsOf(ReplyItemsOf(h))
        /\ resp[h].results # loc[h].results

\* The reply is a bare list of records with string values and pairwise different ids
WellFormedReply(h) ==
    /\ ListReplied(h)
    /\ log[h].llmReply.content.open = "none"
    /\ \A k \in 1..Len(ReplyItemsOf(h)) :
        /\ ~ReplyItemsOf(h)[k].isNull
        /\ ReplyItemsOf(h)[k].isString
    /\ Injective([k \in 1..Len(ReplyItemsOf(h)) |-> ReplyItemsOf(h)[k].id])

\* C9: every result whose id occurs in a well-formed reply with a string value,
\* the empty string included, carries that value in the final result.
C9_RefinedTextAlwaysWins ==
    \A h \in Handlers :
        (Served(h) /\ WellFormedReply(h)) =>
            \A i \in 1..Len(loc[h].results) :
                \A k \in 1..Len(ReplyItemsOf(h)) :
                    ReplyItemsOf(h)[k].id = loc[h].results[i].id =>
                        resp[h].results[i].translated = ReplyItemsOf(h)[k].translated

\* The layers of the request the dictionary does not resolve
Misses(h) == {i \in 1..Len(LayersOf(h)) : ~DictHit(h, i)}

\* C10: a batch sent to the provider holds exactly the layers the dictionary did
\* not resolve, in request order, so no layer the dictionary resolved; when the
\* dictionary resolved every layer, no provider call is made.
C10_BatchIsExactlyTheMisses ==
    \A h \in Handlers :
        /\ log[h].providerCalls > 0 =>
              \E f \in [1..Len(log[h].batch) -> Misses(h)] :
                  /\ \A i, j \in 1..Len(log[h].batch) : i < j => f[i] < f[j]
                  /\ {f[j] : j \in 1..Len(log[h].batch)} = Misses(h)
                  /\ \A j \in 1..Len(log[h].batch) :
                        log[h].batch[j].Text = contextText(LayersOf(h)[f[j]])
        /\ ("dictionary" \in log[h].stages /\ Misses(h) = {}) =>
              /\ log[h].providerCalls = 0
              /\ log[h].batch = <<>>

\* C10 witness: of two layers the first is resolved by the dictionary and the
\* second alone makes up the batch of the provider call.
C10_Witness ==
    \E h \in Handlers :
        /\ log[h].providerCalls = 1
        /\ Len(LayersOf(h)) = 2
        /\ DictHit(h, 1) /\ ~DictHit(h, 2)
        /\ Len(log[h].batch) = 1

\* The results translateWithAzure (or the pass-through of a source-language
\* locale) hands to refineWithLLM, recomputed from the request and the provider's reply
ProviderResults(h) ==
    IF isSourceLanguage(req[h].body.targetLocale)
    THEN PassThrough(LayersOf(h))
    ELSE MergeAzure(LayersOf(h), req[h].body.targetLocale, log[h].azureReply.results)

\* The request passed validation and the dictionary/provider stage produced results
ProviderStageDone(h) ==
    /\ "validate" \in log[h].stages
    /\ req[h].body.parses
    /\ ~FailsValidation(req[h].body)
    /\ log[h].providerCalls = 0 \/ log[h].azureReply.kind = "ok"
    /\ pc[h] \in {"openai", "done"}

\* C11: with no refinement credential configured the refinement stage is the
\* identity: the response holds the provider results unchanged, and no call to the
\* refinement service is issued (no tuples built, no reply received).
C11_NoCredentialIsIdentity ==
    \A h \in Handlers :
        ~env.openaiKey =>
            /\ pc[h] # "openai"
            /\ log[h].refineCalls = 0
            /\ log[h].pairs = <<>>
            /\ log[h].llmReply = NoRefineReply
            /\ (Served(h) /\ ProviderStageDone(h)) =>
                  /\ resp[h].status = 200
                  /\ resp[h].results = ProviderResults(h)

\* C11 witness: without the credential, a request of two layers, one of them sent
\* to the provider and translated, has been answered.
C11_Witness ==
    \E h \in Handlers :
        /\ ~env.openaiKey
        /\ Served(h) /\ ProviderStageDone(h)
        /\ Len(LayersOf(h)) = 2
        /\ log[h].azureReply.kind = "ok"
        /\ \E i \in 1..2 : resp[h].results[i].translated = Core(LayersOf(h)[i].text)

\* C12: the list of tuples sent to the refinement service has one tuple per layer
\* of the request, the layers the dictionary resolved included; the tuple at a
\* layer's position carries that layer's id, layerName and original text, and no
\* other tuple carries that id.
C12_RefinementGetsEveryLayer ==
    \A h \in Handlers :
        log[h].refineCalls > 0 =>
            /\ Len(log[h].pairs) = Len(LayersOf(h))
            /\ \A i \in 1..Len(LayersOf(h)) :
                /\ log[h].pairs[i].id = LayersOf(h)[i].id
                /\ log[h].pairs[i].layerName = LayersOf(h)[i].layerName
                /\ log[h].pairs[i].original = LayersOf(h)[i].text
                /\ \A k \in 1..Len(log[h].pairs) :
                      log[h].pairs[k].id = LayersOf(h)[i].id => k = i

\* C12 witness: a refinement call for two layers with different texts, the first
\* resolved by the dictionary and the second translated by the provider.
C12_Witness ==
    \E h \in Handlers :
        /\ log[h].refineCalls = 1
        /\ Len(LayersOf(h)) = 2
        /\ DictHit(h, 1) /\ ~DictHit(h, 2)
        /\ log[h].azureReply.kind = "ok"
        /\ Len(log[h].pairs) = 2

\* C13: when the provider answers with a non-success status the request ends
\* with status 502 and an empty result list (no dictionary hit is returned), and
\* the message holds, after its fixed prefix, a prefix of the provider's body of
\* at most 200 characters.
C13_ProviderStatusFailsWhole ==
    \A h \in Handlers :
        (Served(h) /\ log[h].azureReply.kind = "status") =>
            LET prefixLen == Len(AzureErrorMessage(<<>>))
                tail == SubSeq(resp[h].message, prefixLen + 1, Len(resp[h].message))
            IN  /\ resp[h].status = 502
                /\ resp[h].kind = "translation"
                /\ resp[h].results = <<>>
                /\ log[h].refineCalls = 0
                /\ Len(resp[h].message) >= prefixLen
                /\ Len(tail) <= ErrSliceLen
                /\ tail = SubSeq(log[h].azureReply.errText, 1, Len(tail))

\* C13 witness: the provider failed with a body longer than 200 characters on a
\* request one of whose two layers the dictionary had resolved.
C13_Witness ==
    \E h \in Handlers :
        /\ Served(h) /\ log[h].azureReply.kind = "status"
        /\ Len(log[h].azureReply.errText) > ErrSliceLen
        /\ Len(LayersOf(h)) = 2
        /\ \E i \in 1..2 : DictHit(h, i)
        /\ resp[h].status = 502

\* C14: a POST request that arrives while the provider's key or region is not
\* configured is answered at once with status 500 (so not with 502), and nothing
\* ran for it: no quota read, no stage, no provider call.
C14_MissingCredentialIs500 ==
    \A h \in Handlers :
        (pc[h] # "idle" /\ req[h].method = "POST" /\ (~env.azureKey \/ ~env.azureRegion)) =>
            /\ Served(h)
            /\ resp[h].status = 500
            /\ resp[h].status # 502
            /\ log[h].stages = {}
            /\ log[h].providerCalls = 0 /\ log[h].batch = <<>>
            /\ log[h].azureReply = NoProviderReply

\* C14 witness: with the key configured and the region absent, a valid request
\* that needs the provider has been answered.
C14_Witness ==
    \E h \in Handlers :
        /\ Served(h) /\ req[h].method = "POST"
        /\ env.azureKey /\ ~env.azureRegion
        /\ req[h].body.parses /\ ~FailsValidation(req[h].body)
        /\ \E i \in 1..Len(LayersOf(h)) : ~DictHit(h, i)
        /\ resp[h].status = 500

\* C17: a request under which the quota store failed (on its read or its write)
\* is denied without a provider or refinement call and is answered with a
\* service-unavailable response (503), which is not the 502 translation error.
C17_StoreFailureIsUnavailable ==
    \A h \in Handlers :
        (Served(h) /\ log[h].storeError \in {"get", "put"}) =>
            /\ log[h].providerCalls = 0
            /\ log[h].refineCalls = 0
            /\ resp[h].status = 503
            /\ resp[h].status # 502

\* The payload holds more layers than the maximum item count or a layer whose
\* text is longer than the maximum per-item length
ExceedsLimits(body) ==
    /\ body.textLayers.kind = "array"
    /\ \/ Len(body.textLayers.items) > MAX_TEXT_LAYERS
       \/ \E i \in 1..Len(body.textLayers.items) :
            Len(body.textLayers.items[i].text) > MAX_CHARS_PER_LAYER

\* C15: a request whose payload exceeds the maximum item count or the maximum
\* per-item text length causes no provider call and no refinement call and is
\* answered with status 400.
C15_OversizePayloadIs400 ==
    \A h \in Handlers :
        (pc[h] # "idle" /\ req[h].method = "POST" /\ ExceedsLimits(req[h].body)) =>
            /\ log[h].providerCalls = 0
            /\ log[h].refineCalls = 0
            /\ Served(h) => resp[h].status = 400

\* C16: an admitted request whose payload is malformed (a body that is not JSON,
\* or one that fails validation) is answered with status 400, never with 502.
C16_MalformedPayloadIs400 ==
    \A h \in Handlers :
        (Served(h) /\ req[h].method = "POST" /\ loc[h].rateCheck.allowed
                   /\ (~req[h].body.parses \/ FailsValidation(req[h].body))) =>
            /\ resp[h].status = 400
            /\ resp[h].status # 502

\* C18: once the dictionary/provider stage has produced results the request is
\* answered with status 200, whatever happens in the refinement stage.
C18_RefinementNeverFailsRequest ==
    \A h \in Handlers :
        (Served(h) /\ ProviderStageDone(h)) => resp[h].status = 200

\* C19: a request waiting for the refinement service is eventually answered with
\* status 200; answered without a reply of the service, it holds the
\* pre-refinement results.
C19_RefinementNeverBlocks ==
    \A h \in Handlers :
        (pc[h] = "openai") ~>
            (/\ Served(h)
             /\ resp[h].status = 200
             /\ log[h].llmReply.kind = "none" => resp[h].results = loc[h].results)

\* C20: within a window the stored count of an identity never goes down, whatever
\* step of whatever request is taken.
C20_CountNeverDecreases ==
    [][\A k \in Identities :
          (KvLive(kv, k, now) /\ KvLive(kv', k, now')) =>
              ReadCurrent(kv', k, now') >= ReadCurrent(kv, k, now)]_vars

\* C21: in the handling of one request the provider is called at most once and
\* the refinement service at most once; a provider call that failed (it threw,
\* answered a non-success status or an unusable body) has ended the request with
\* the error status 502 after that one call, and no refinement call followed.
C21_NoStageRetries ==
    \A h \in Handlers :
        /\ log[h].providerCalls <= 1
        /\ log[h].refineCalls <= 1
        /\ log[h].azureReply.kind \in {"throw", "status", "ok-null"} =>
              /\ Served(h)
              /\ resp[h].status = 502
              /\ log[h].providerCalls = 1
              /\ log[h].refineCalls = 0

\* C21 witness: the provider call of a request threw and the request has ended.
C21_Witness ==
    \E h \in Handlers :
        /\ Served(h)
        /\ log[h].azureReply.kind = "throw"
        /\ log[h].providerCalls = 1
        /\ resp[h].status = 502

\* C24: the results of the dictionary/provider stage, and the results of the 200
\* response after refinement, have the length of the request's textLayers and
\* hold at position i the id of layer i.
C24_ResultsIndexAligned ==
    \A h \in Handlers :
        ProviderStageDone(h) =>
            /\ Len(loc[h].results) = Len(LayersOf(h))
            /\ \A i \in 1..Len(LayersOf(h)) : loc[h].results[i].id = LayersOf(h)[i].id
            /\ (Served(h) /\ resp[h].status = 200) =>
                  /\ Len(resp[h].results) = Len(LayersOf(h))
                  /\ \A i \in 1..Len(LayersOf(h)) : resp[h].results[i].id = LayersOf(h)[i].id

\* C24 witness: a 200 response after a list reply of the refinement service, for
\* two layers of which the first went to the provider and the second was
\* resolved by the dictionary.
C24_Witness ==
    \E h \in Handlers :
        /\ Served(h) /\ resp[h].status = 200 /\ ProviderStageDone(h)
        /\ Len(LayersOf(h)) = 2
        /\ ~DictHit(h, 1) /\ DictHit(h, 2)
        /\ ListReplied(h)

\* C22: for a target locale that is "en" or starts with "en-", no provider call is
\* made (and no dictionary lookup), and the pre-refinement results hold, for
\* every layer in order, the layer's id and its text unchanged.
C22_SourceLanguagePassesThrough ==
    \A h \in Handlers :
        LET locale == req[h].body.targetLocale
        IN  (/\ "validate" \in log[h].stages
             /\ ~FailsValidation(req[h].body)
             /\ locale = <<"e","n">> \/ (Len(locale) >= 3 /\ SubSeq(locale, 1, 3) = <<"e","n","-">>)) =>
                /\ log[h].providerCalls = 0
                /\ log[h].batch = <<>>
                /\ "dictionary" \notin log[h].stages
                /\ Len(loc[h].results) = Len(LayersOf(h))
                /\ \A i \in 1..Len(LayersOf(h)) :
                      /\ loc[h].results[i].id = LayersOf(h)[i].id
                      /\ loc[h].results[i].translated = LayersOf(h)[i].text

\* C22 witness: a request for en-GB whose text is a dictionary key with a space
\* before it has been answered with that text.
C22_Witness ==
    \E h \in Handlers :
        /\ Served(h) /\ resp[h].status = 200
        /\ req[h].body.targetLocale = EN_GB
        /\ Len(LayersOf(h)) = 1
        /\ LayersOf(h)[1].text = <<" ">> \o JAN
        /\ resp[h].results[1].translated = <<" ">> \o JAN

IsUpperLetter(c) == \E i \in 1..Len(UpperAlpha) : UpperAlpha[i] = c
IsLowerLetter(c) == \E i \in 1..Len(LowerAlpha) : LowerAlpha[i] = c

\* The dictionary's form for a text that is a casing of a key, in the language of
\* a locale that names a column
DictForm(text, locale) ==
    LET entry == ABBREV_DICT[ToUpperCase(text)]
    IN  IF locale \in DOMAIN entry THEN entry[locale]
        ELSE entry[ToLowerCase(BeforeHyphen(locale))]

\* The layer's text is a casing of a dictionary key with no space around it, and
\* the locale, or its base language, is a column of the key's row
CasedKeyRequest(h) ==
    /\ Len(LayersOf(h)) = 1
    /\ LET text == LayersOf(h)[1].text
           locale == req[h].body.targetLocale
       IN  /\ \A i \in 1..Len(text) : IsUpperLetter(text[i]) \/ IsLowerLetter(text[i])
           /\ ToUpperCase(text) \in DOMAIN ABBREV_DICT
           /\ \/ locale \in DOMAIN ABBREV_DICT[ToUpperCase(text)]
              \/ ToLowerCase(BeforeHyphen(locale)) \in DOMAIN ABBREV_DICT[ToUpperCase(text)]

\* C25: for a text that is a casing of a dictionary key and a supported locale,
\* the result is the dictionary's form upper-cased when the text is all
\* upper-case, lower-cased when it is all lower-case, with its first character
\* upper-cased and the rest lower-cased when the text starts with an upper-case
\* letter, and the dictionary's form as it stands otherwise.
C25_CasingRestored ==
    \A h \in Handlers :
        (Served(h) /\ "dictionary" \in log[h].stages /\ CasedKeyRequest(h)) =>
            LET text == LayersOf(h)[1].text
                match == DictForm(text, req[h].body.targetLocale)
                out == resp[h].results[1].translated
            IN  /\ resp[h].status = 200
                /\ log[h].providerCalls = 0
                /\ IF \A i \in 1..Len(text) : IsUpperLetter(text[i])
                   THEN out = [i \in 1..Len(match) |-> UpperChar(match[i])]
                   ELSE IF \A i \in 1..Len(text) : IsLowerLetter(text[i])
                   THEN out = [i \in 1..Len(match) |-> LowerChar(match[i])]
                   ELSE IF IsUpperLetter(text[1])
                   THEN out = [i \in 1..Len(match) |->
                                 IF i = 1 THEN UpperChar(match[1]) ELSE LowerChar(match[i])]
                   ELSE out = match

\* C25 witness: jAn, which is in none of the three casings, has been answered
\* for a locale whose form of the key is in mixed case (Th1).
C25_Witness ==
    \E h \in Handlers :
        /\ Served(h) /\ "dictionary" \in log[h].stages /\ CasedKeyRequest(h)
        /\ LayersOf(h)[1].text = <<"j","A","n">>
        /\ req[h].body.targetLocale = VI
        /\ resp[h].results[1].translated = <<"T","h","1">>

\* C26: a text is resolved by the dictionary exactly when its trimmed upper-case
\* form is a key and the key's row has the target locale or, failing that, the
\* lower-cased part of the locale before its first hyphen; the resolved form is
\* the one the resolver gives for that key of the row; every other text is
\* not found, so it goes to the provider.
C26_LocaleMatchOrder ==
    \A h \in Handlers :
        (pc[h] \in {"azure", "done"} /\ "dictionary" \in log[h].stages /\ Len(LayersOf(h)) = 1) =>
            LET text == LayersOf(h)[1].text
                locale == req[h].body.targetLocale
                upper == ToUpperCase(Trim(text))
                base == ToLowerCase(BeforeHyphen(locale))
                cols == IF upper \in DOMAIN ABBREV_DICT THEN DOMAIN ABBREV_DICT[upper] ELSE {}
            IN  IF locale \in cols \/ base \in cols
                THEN /\ log[h].providerCalls = 0
                     /\ Served(h) /\ resp[h].status = 200
                     /\ resp[h].results[1].translated =
                            lookupAbbrev(text, IF locale \in cols THEN locale ELSE base).value
                ELSE /\ log[h].providerCalls = 1
                     /\ Len(log[h].batch) = 1

\* C27: the resolver's result for a text is its result for the trimmed text: the
\* same decision between found and not found, and the same form.
C27_ResolverIgnoresWhitespace ==
    \A h \in Handlers :
        (pc[h] \in {"azure", "done"} /\ "dictionary" \in log[h].stages /\ Len(LayersOf(h)) = 1
                /\ req[h].body.targetLocale \in {FR, VI, FR_CA, XX}) =>
            LET trimmed == lookupAbbrev(Trim(LayersOf(h)[1].text), req[h].body.targetLocale)
            IN  /\ trimmed.found <=> log[h].providerCalls = 0
                /\ (trimmed.found /\ Served(h)) =>
                      resp[h].results[1].translated = trimmed.value

\* The provider answered successfully a batch made of the request's one layer
CodecAnswered(h) ==
    /\ Served(h)
    /\ log[h].azureReply.kind = "ok"
    /\ Len(LayersOf(h)) = 1
    /\ log[h].providerCalls = 1

\* C23: when the provider's successful reply holds no translation for a layer
\* (the list is too short or the entry has no text), the response is 200 and
\* holds for that layer its id and its original text, as it stands.
C23_MissingTranslationGivesSource ==
    \A h \in Handlers :
        (CodecAnswered(h) /\ (log[h].azureReply.results = <<>>
                              \/ ~log[h].azureReply.results[1].hasText)) =>
            /\ resp[h].status = 200
            /\ Len(resp[h].results) = 1
            /\ resp[h].results[1].id = LayersOf(h)[1].id
            /\ resp[h].results[1].translated = LayersOf(h)[1].text

\* C28: the result for a provider output s is, with k the offset of the first
\* "] " of s: the trimmed rest of s after that marker when k exists and is less
\* than the length of the layer name plus 20, and the whole of s trimmed
\* otherwise; a "]" further on in s does not cut the text.
C28_StripsFirstMarkerNearStart ==
    \A h \in Handlers :
        (CodecAnswered(h) /\ log[h].azureReply.results # <<>>
                          /\ log[h].azureReply.results[1].hasText) =>
            LET s == log[h].azureReply.results[1].text
                name == LayersOf(h)[1].layerName
                out == resp[h].results[1].translated
                marks == {k \in 0..(Len(s) - 2) : s[k + 1] = "]" /\ s[k + 2] = " "}
                near == {k \in marks : (\A j \in marks : k <= j) /\ k < Len(name) + 20}
            IN  /\ \A k \in near : out = Trim(SubSeq(s, k + 3, Len(s)))
                /\ near = {} => out = Trim(s)

\* C28 witness: the output "[T] L [e] b", whose content holds a later "] ", has
\* been answered as "L [e] b".
C28_Witness ==
    \E h \in Handlers :
        /\ CodecAnswered(h) /\ log[h].azureReply.results # <<>>
        /\ LayersOf(h)[1].layerName = TITLE
        /\ log[h].azureReply.results[1].text = <<"[","T","]"," ","L"," ","[","e","]"," ","b">>
        /\ resp[h].results[1].translated = <<"L"," ","[","e","]"," ","b">>

StoredFor(k) == IF KvLive(kv, k, now) THEN ParseInt(kv[k].value) ELSE 0

\* C30: a request without the identity header is counted against the bucket
\* "anonymous" and a request with the header against the bucket of that name:
\* the store's count of each bucket is the number of admissions of its own
\* callers; a request without the header is admitted only while "anonymous" is
\* below the limit and is denied only when "anonymous" holds 25; a request with
\* the header is denied only when its own bucket holds 25.
C30_AnonymousBucket ==
    /\ \A k \in Identities : StoredFor(k) = hist.admitted[k]
    /\ \A h \in Handlers :
        (pc[h] # "idle" /\ req[h].method = "POST") =>
            LET bucket == IF req[h].header = "" THEN "anonymous" ELSE req[h].header
            IN  /\ loc[h].userId = bucket
                /\ pc[h] = "kvPut" => StoredFor(bucket) < DAILY_LIMIT
                /\ (Served(h) /\ resp[h].status = 429) => StoredFor(bucket) = DAILY_LIMIT
                /\ (Served(h) /\ resp[h].status # 429) => loc[h].rateCheck.allowed

\* C30 witness: a request without the header has been denied while the bucket of
\* the identified caller is below the limit and not empty.
C30_Witness ==
    \E h \in Handlers :
        /\ Served(h) /\ req[h].header = "" /\ resp[h].status = 429
        /\ StoredFor("anonymous") = DAILY_LIMIT
        /\ StoredFor("u1") \in 1..(DAILY_LIMIT - 1)

\* The identity a request in flight counts against: its X-User-Id header, or the
\* bucket of the unidentified callers
IdentityOf(h) == IF req[h].header = "" THEN "anonymous" ELSE req[h].header

\* C31: requests of different identities are independent.  A step changes the
\* stored counter of an identity (and the admissions granted to it) only if it is
\* the counter write of a request of that identity, and the outcome of a request's
\* admission check is decided by the stored counter of its own identity alone.
C31_IdentitiesIndependent ==
    [][\A k \in Identities :
        /\ (kv'[k] # kv[k] \/ hist'.admitted[k] # hist.admitted[k])
              => \E h \in Handlers :
                    pc[h] = "kvPut" /\ pc'[h] # "kvPut" /\ IdentityOf(h) = k
        /\ \A h \in Handlers :
              (pc[h] = "kvGet" /\ pc'[h] # "kvGet" /\ IdentityOf(h) = k)
              => LET stored == IF KvLive(kv, k, now) THEN ParseInt(kv[k].value) ELSE 0
                 IN  /\ (resp'[h] = RateLimited) = (stored >= DAILY_LIMIT)
                     /\ loc'[h].current = stored
        /\ \A h \in Handlers :
              (pc[h] = "kvPut" /\ pc'[h] # "kvPut" /\ IdentityOf(h) = k)
              => /\ loc'[h].rateCheck = [allowed |-> TRUE,
                                         remaining |-> DAILY_LIMIT - loc[h].current - 1]
                 /\ kv'[k].value = DecStr(loc[h].current + 1)]_vars

\* Requests of the two identities in flight together: one identity's request is
\* admitted while the other identity's request stands between its read and its
\* write, and the other identity's counter is what it was
C31_Witness ==
    /\ pc[1] = "kvPut" /\ IdentityOf(1) = "u1"
    /\ pc[2] \in {"azure", "done"} /\ IdentityOf(2) = "anonymous"
    /\ loc[2].rateCheck.allowed
    /\ hist.admitted["anonymous"] = NearLimit + 1
    /\ kv["u1"] = StoredCount(NearLimit)

\* The reply is a list of records with an id and a non-empty string each, wrapped
\* in a fenced code block whose opening fence carries the json tag or no tag
FencedListReply(h) ==
    /\ ListReplied(h)
    /\ log[h].llmReply.content.open \in {"fence-json", "fence"}
    /\ log[h].llmReply.content.close
    /\ \A k \in 1..Len(ReplyItemsOf(h)) :
        /\ ReplyItemsOf(h)[k].id # ""
        /\ ReplyItemsOf(h)[k].isString
        /\ ReplyItemsOf(h)[k].translated # <<>>

\* C32: a reply that is a valid list of records in a fenced code block, with or
\* without a language tag after the opening fence, is unwrapped and merged by id:
\* every result whose id occurs in the reply carries the reply's text.
C32_FencedReplyIsMerged ==
    \A h \in Handlers :
        (Served(h) /\ env.openaiKey /\ FencedListReply(h)) =>
            \A i \in 1..Len(loc[h].results) :
                \A k \in 1..Len(ReplyItemsOf(h)) :
                    ReplyItemsOf(h)[k].id = loc[h].results[i].id =>
                        resp[h].results[i].translated = ReplyItemsOf(h)[k].translated

\* C34: in every reachable state, whatever the interleaving of the admissions, a
\* stored counter is the decimal form of an integer from 0 to the daily limit, and
\* the remaining value of an admission check is from 0 to the daily limit less one
\* when the check allowed the request and 0 when it denied it.
C34_CounterAndRemainingInRange ==
    /\ \A k \in Identities :
          kv[k].present => \E n \in 0..DAILY_LIMIT : kv[k].value = DecStr(n)
    /\ \A h \in Handlers :
          /\ loc[h].rateCheck.allowed => loc[h].rateCheck.remaining \in 0..(DAILY_LIMIT - 1)
          /\ ~loc[h].rateCheck.allowed => loc[h].rateCheck.remaining = 0
          /\ resp[h].status = 429 => resp[h].remaining = <<"0">>
          /\ resp[h].status = 200 =>
                \E n \in 0..(DAILY_LIMIT - 1) : resp[h].remaining = DecStr(n)

\* The counter stands at the daily limit: one handler's request took the last
\* admission with nothing remaining, the other handler's request was denied
C34_Witness ==
    /\ kv["u1"].value = DecStr(DAILY_LIMIT)
    /\ \E h, g \in Handlers :
          /\ pc[h] = "done" /\ IdentityOf(h) = "u1"
          /\ loc[h].rateCheck = [allowed |-> TRUE, remaining |-> 0]
          /\ resp[h].status = 200
          /\ pc[g] = "done" /\ IdentityOf(g) = "u1"
          /\ resp[g] = RateLimited

\* The request is answered before the pipeline: a preflight, a read of the privacy
\* page, any other request that is not a POST, or a POST while a credential of the
\* provider is missing
StaysOutside(h) ==
    /\ req[h] # NoRequest
    /\ \/ req[h].method # "POST"
       \/ ~env.azureKey
       \/ ~env.azureRegion

\* C35: a request that never enters the pipeline is answered at once with its
\* status (204, 200, 405, 500) and leaves the quota store as it was: no identity's
\* counter is read or written, no admission is granted, no store call is made.
C35_OutsidePipelineLeavesStore ==
    \A h \in Handlers :
        StaysOutside(h) =>
            /\ pc[h] = "done"
            /\ resp[h] = (IF req[h].method = "OPTIONS" THEN Preflight
                          ELSE IF req[h].method = "GET" /\ req[h].path = "/privacy" THEN PrivacyPage
                          ELSE IF req[h].method # "POST" THEN MethodNotAllowed
                          ELSE Misconfigured)
            /\ kv = [k \in Identities |-> AbsentKey]
            /\ hist.admitted = [k \in Identities |-> 0]
            /\ loc[h] = NoLoc
            /\ log[h] = NoLog

\* A POST that arrived with the provider's key configured and its region missing
\* was answered with 500, the store untouched
C35_Witness ==
    /\ pc[1] = "done"
    /\ req[1].method = "POST" /\ env.azureKey /\ ~env.azureRegion
    /\ resp[1].status = 500
    /\ kv = [k \in Identities |-> AbsentKey]

\* The selection messages the UI received, in order
SelectionMsgs(msgs) == SelectSeq(msgs, LAMBDA m : m.type \in {"frame-selected", "no-selection"})

\* The message says what is selected: the one selected frame, or no frame
Describes(m, sel) ==
    IF Len(sel) = 1 /\ NodeType(sel[1]) = "FRAME"
    THEN m.type = "frame-selected" /\ m.id = sel[1]
    ELSE m.type = "no-selection"

ListedInvalid(msg) ==
    \/ ~msg.sourceIsString
    \/ ~msg.translationsIsList
    \/ /\ \A i \in 1..Len(msg.translations) :
            /\ ~msg.translations[i].isNull
            /\ \A j \in 1..Len(msg.translations[i].layers) :
                  ~msg.translations[i].layers[j].isNull
       /\ \E i \in 1..Len(msg.translations) :
            \/ ~msg.translations[i].localeIsString
            \/ ~msg.translations[i].layersIsList
            \/ \E j \in 1..Len(msg.translations[i].layers) :
                  \/ ~msg.translations[i].layers[j].idIsString
                  \/ ~msg.translations[i].layers[j].translatedIsString

\* C36: a handler that received an invalid payload has returned after posting one
\* apply-done message, and no clone on the page is of its making (so it cloned
\* nothing and wrote no text), wherever in the payload the invalid part stands.
C36_InvalidPayloadChangesNothing ==
    \A a \in ApplyHandlers :
        (applying[a].pc # "idle" /\ ListedInvalid(applying[a].msg)) =>
            /\ applying[a].pc = "returned"
            /\ applying[a].posted = 1
            /\ \E k \in 1..Len(ui) : ui[k] = ApplyDoneMsg
            /\ \A c \in 1..Len(page) : page[c].owner # a

\* A payload whose second entry has a locale that is no string, behind a valid
\* first entry: the handler returned with apply-done and the page holds no clone
C36_Witness ==
    /\ applying[1].pc = "returned"
    /\ Len(applying[1].msg.translations) = 2
    /\ ~applying[1].msg.translations[2].localeIsString
    /\ applying[1].posted = 1
    /\ ui[Len(ui)] = ApplyDoneMsg
    /\ page = <<>>

\* C37: an invocation of the apply-translations handler that has ended, by return
\* or by exception, has posted exactly one apply-done message, whatever the path:
\* invalid payload, source frame not found, a font that does not load or a text
\* assignment that fails, success; and no invocation posts more than one.
C37_ExactlyOneApplyDone ==
    \A a \in ApplyHandlers :
        /\ applying[a].posted <= 1
        /\ applying[a].pc \in {"returned", "rejected"} => applying[a].posted = 1

\* C38: whatever the interleaving of the handlers, no two locale clones of the
\* source stand at the same x, and every clone stands to the right of the source.
C38_ClonesNeverOverlap ==
    /\ \A c \in 1..Len(page) : page[c].x >= SourceX + SourceWidth + GAP
    /\ \A c, d \in 1..Len(page) : c # d => page[c].x # page[d].x

\* The presets stored under a name
StoredUnder(name) == {i \in 1..Len(clientStorage) : clientStorage[i].name = name}

\* C39: once no storage call is in flight, the stored list holds, for every name,
\* what the messages received ask for: one preset with the locales of the latest
\* save-preset of the name when no delete-preset of the name came after it, and no
\* preset of the name otherwise.
C39_PresetsMatchMessages ==
    presetOps = <<>> =>
        \A name \in PresetNames :
            IF expected.want[name] = ""
            THEN StoredUnder(name) = {}
            ELSE /\ Cardinality(StoredUnder(name)) = 1
                 /\ \A i \in StoredUnder(name) : clientStorage[i].locales = expected.want[name]
====
